---- MODULE Spec2Model ----
(***************************************************************************)
(* JSON to ZIP converter: the JSON -> file tree builders and the tree       *)
(* utilities.                                                               *)
(*                                                                          *)
(* Strings are sequences of one-character strings, so that splitting,      *)
(* joining, sanitizing and comparing them are computed, not assumed.       *)
(* A JavaScript value is a record [t, s, e]:                                *)
(*   t  the kind: "null", "bool", "num", "str", "obj", "arr"                 *)
(*   s  for a scalar, the text String(value) gives                          *)
(*   e  for an object or an array, its own properties in the order          *)
(*      Object.keys enumerates them, each [k |-> key, v |-> value]          *)
(***************************************************************************)
EXTENDS Integers, Sequences, FiniteSets, TLC

VARIABLES
    op,             \* the function applied last ("idle": none)
    data,           \* the parsed JSON value handed to a builder
    fileTree,       \* createFileTree(data): path -> content
    hierarchy,      \* createHierarchicalTree(fileTree), or a thrown error
    files,          \* generateFileStructure(data): list of {path, content}
    preview,        \* buildFileTree(files), or a thrown error
    fileStructure,  \* parseJsonToFileStructure(data), or a thrown error
    filename,       \* the argument of sanitizeFilename
    sanitized,      \* sanitizeFilename(filename)
    tree,           \* the argument of a tree utility
    rebuilt,        \* createTreeFromPaths(getFilePaths(tree), '')
    sorted,         \* sortTree(tree)
    resorted,       \* sortTree(sortTree(tree))
    valid,          \* isValidTree(data)
    treeStats,      \* getTreeStats(tree)
    flat,           \* flattenTree(tree)
    lookup,         \* the path looked up
    foundNode,      \* findNodeByPath(tree, lookup)
    pathList,       \* the paths handed to createTreeFromPaths
    filePaths,      \* getFilePaths(tree)
    directoryPaths, \* getDirectoryPaths(tree)
    store0,         \* the objects there are when a function is called
    store,          \* the objects there are when it has returned
    given,          \* the argument of the function, in the store
    made,           \* what the function returned, in the store
    mounted,        \* the component on the page ("none": not yet)
    jsonInput,      \* App: the text of the input field
    heldStructure,  \* App: the state fileStructure, null or a structure
    jsonData,       \* FileConverter: the parsed JSON, or null
    error,          \* the message shown ("": none)
    isProcessing,   \* App: an archive is being made
    isConverting,   \* FileConverter: an archive is being made
    expandedFolders,\* App: the paths of the folders shown open
    reading,        \* the texts of the files a FileReader is reading
    archive,        \* the last archive request: none, pending, done, failed
    downloads,      \* the number of downloads triggered
    started,        \* what was loaded when the last archive request began
    lastEvent,      \* the last input or clear event the handlers got
    touched         \* an input or clear event came while the last request was pending

vars == <<op, data, fileTree, hierarchy, files, preview, fileStructure,
          filename, sanitized, tree, rebuilt, sorted, resorted, valid,
          treeStats, flat, lookup, foundNode, pathList, filePaths,
          directoryPaths, store0, store, given, made,
          mounted, jsonInput, heldStructure, jsonData, error, isProcessing,
          isConverting, expandedFolders, reading, archive, downloads, started,
          lastEvent, touched>>

\* What the builders, sanitizeFilename and the two-step checks keep.
builders == <<fileTree, hierarchy, files, preview, fileStructure, filename,
              sanitized, rebuilt, sorted, resorted>>
\* What the tree utilities applied once keep.
utility == <<valid, treeStats, flat, lookup, foundNode, pathList, filePaths,
             directoryPaths, store0, store, given, made>>
\* What the functions applied on their own keep: the two components.
session == <<mounted, jsonInput, heldStructure, jsonData, error, isProcessing,
             isConverting, expandedFolders, reading, archive, downloads,
             started, lastEvent, touched>>
\* What the components keep: the functions applied on their own.
calls == <<op, data, tree, builders, utility>>

----------------------------------------------------------------------------
(* Bounds of the model *)

\* JSON inputs have at most MaxNodes values (the root included).
MaxNodes == 3
\* Trees given to the tree utilities have at most MaxEntries nodes below the root.
MaxEntries == 3
\* Names given to sanitizeFilename have at most MaxNameLen characters.
MaxNameLen == 4
\* Lists given to createTreeFromPaths have at most MaxPaths entries.
MaxPaths == 2
\* Trees a path is looked up in have at most MaxLookupNodes nodes below the root.
MaxLookupNodes == 2
\* At most MaxReads files are being read at a time.
MaxReads == 1
\* An archive is asked for while fewer than MaxDownloads were downloaded.
MaxDownloads == 2

----------------------------------------------------------------------------
(* Strings *)

Digits == <<"0", "1", "2", "3", "4", "5", "6", "7", "8", "9">>
Lower == <<"a", "b", "c", "d", "e", "f", "g", "h", "i", "j", "k", "l", "m",
           "n", "o", "p", "q", "r", "s", "t", "u", "v", "w", "x", "y", "z">>

IsDigit(c) == \E i \in 1..10 : Digits[i] = c
DigitVal(c) == (CHOOSE i \in 1..10 : Digits[i] = c) - 1
IsLower(c) == \E i \in 1..26 : Lower[i] = c

\* The UTF-16 code unit of a character.
CharCode(c) ==
    IF IsDigit(c) THEN 48 + DigitVal(c)
    ELSE IF IsLower(c) THEN 96 + (CHOOSE i \in 1..26 : Lower[i] = c)
    ELSE CASE c = "\t" -> 9
           [] c = "\n" -> 10
           [] c = " " -> 32
           [] c = "\"" -> 34
           [] c = "*" -> 42
           [] c = "." -> 46
           [] c = "/" -> 47
           [] c = ":" -> 58
           [] c = "<" -> 60
           [] c = ">" -> 62
           [] c = "?" -> 63
           [] c = "A" -> 65
           [] c = "[" -> 91
           [] c = "\\" -> 92
           [] c = "]" -> 93
           [] c = "_" -> 95
           [] c = "{" -> 123
           [] c = "|" -> 124
           [] c = "}" -> 125

Min(S) == CHOOSE m \in S : \A n \in S : m <= n

\* a < b for strings, as the default Array.prototype.sort compares them:
\* by code units, a proper prefix first.
StrLess(a, b) ==
    LET n == IF Len(a) < Len(b) THEN Len(a) ELSE Len(b)
        d == {i \in 1..n : a[i] # b[i]}
    IN  IF d = {} THEN Len(a) < Len(b)
        ELSE CharCode(a[Min(d)]) < CharCode(b[Min(d)])

RECURSIVE ToDigits(_)
\* String(n) for an integer n >= 0.
ToDigits(n) ==
    IF n < 10 THEN <<Digits[n + 1]>>
    ELSE ToDigits(n \div 10) \o <<Digits[(n % 10) + 1]>>

RECURSIVE NumVal(_)
\* The number a string of digits denotes.
NumVal(k) ==
    IF k = <<>> THEN 0
    ELSE 10 * NumVal(SubSeq(k, 1, Len(k) - 1)) + DigitVal(k[Len(k)])

RECURSIVE Split(_, _)
\* s.split(sep) for a one-character separator: never empty, '' gives [''].
Split(s, sep) ==
    LET hits == {i \in 1..Len(s) : s[i] = sep}
    IN  IF hits = {} THEN <<s>>
        ELSE <<SubSeq(s, 1, Min(hits) - 1)>>
                 \o Split(SubSeq(s, Min(hits) + 1, Len(s)), sep)

\* parts.filter(part => part.length > 0)
NonEmptyParts(parts) == SelectSeq(parts, LAMBDA p : Len(p) > 0)

RECURSIVE Join(_, _)
\* parts.join(sep)
Join(parts, sep) ==
    IF parts = <<>> THEN <<>>
    ELSE IF Len(parts) = 1 THEN parts[1]
    ELSE parts[1] \o sep \o Join(Tail(parts), sep)

\* `${base}/${name}`
Slash(base, name) == base \o <<"/">> \o name

----------------------------------------------------------------------------
(* JavaScript values *)

JsNull == [t |-> "null", s |-> <<"n", "u", "l", "l">>, e |-> <<>>]
JsNum(digits) == [t |-> "num", s |-> digits, e |-> <<>>]
JsStr(chars) == [t |-> "str", s |-> chars, e |-> <<>>]
JsObj(entries) == [t |-> "obj", s |-> <<>>, e |-> entries]
JsArr(entries) == [t |-> "arr", s |-> <<>>, e |-> entries]
EmptyObj == JsObj(<<>>)
Entry(key, value) == [k |-> key, v |-> value]

\* typeof v === 'object' && v !== null
IsObject(v) == v.t \in {"obj", "arr"}
\* value && typeof value === 'object' && !Array.isArray(value)
IsPlainObject(v) == v.t = "obj"
\* !v
Falsy(v) ==
    \/ v.t = "null"
    \/ v.t = "str" /\ v.s = <<>>
    \/ v.t = "num" /\ v.s = <<"0">>
    \/ v.t = "bool" /\ v.s = <<"f", "a", "l", "s", "e">>

\* A canonical array index ("0", "7", "10"; not "01"): such keys are
\* enumerated first and in ascending numeric order, whenever they were added.
IsIndexKey(k) ==
    /\ Len(k) >= 1
    /\ Len(k) <= 9
    /\ \A i \in 1..Len(k) : IsDigit(k[i])
    /\ (k[1] # "0" \/ Len(k) = 1)

KeyPos(entries, key) ==
    LET at == {i \in 1..Len(entries) : entries[i].k = key}
    IN  IF at = {} THEN 0 ELSE Min(at)

\* key in obj
Has(entries, key) == KeyPos(entries, key) # 0
\* obj[key], for a key that is present
Get(entries, key) == entries[KeyPos(entries, key)].v
\* Object.keys(obj)
Keys(entries) == [i \in 1..Len(entries) |-> entries[i].k]

\* obj[key] = value on the property list of an object: an existing key keeps
\* its place; a new index key goes among the index keys in numeric order; any
\* other new key goes last.
Put(entries, key, value) ==
    IF Has(entries, key)
    THEN [entries EXCEPT ![KeyPos(entries, key)] = Entry(key, value)]
    ELSE IF IsIndexKey(key)
    THEN LET before == {i \in 1..Len(entries) :
                           /\ IsIndexKey(entries[i].k)
                           /\ NumVal(entries[i].k) < NumVal(key)}
             n == Cardinality(before)
         IN  SubSeq(entries, 1, n) \o <<Entry(key, value)>>
                 \o SubSeq(entries, n + 1, Len(entries))
    ELSE Append(entries, Entry(key, value))

\* What a function returned, or that it threw.
Returned(v) == [ok |-> TRUE, v |-> v]
Threw == [ok |-> FALSE, v |-> EmptyObj]

----------------------------------------------------------------------------
(* Text constants of the code *)

DotTxt == <<".", "t", "x", "t">>
DotJson == <<".", "j", "s", "o", "n">>
\* Faulty variant of DataName: the fallback name of a root scalar is misspelt.
DataNameMisspelt == <<"d", "a", "t">>
DataName == <<"d", "a", "t", "a">>
ItemPrefix == <<"i", "t", "e", "m", "_">>
TypeKey == <<"t", "y", "p", "e">>
PathKey == <<"p", "a", "t", "h">>
ContentKey == <<"c", "o", "n", "t", "e", "n", "t">>
ChildrenKey == <<"c", "h", "i", "l", "d", "r", "e", "n">>
FileType == JsStr(<<"f", "i", "l", "e">>)
FolderType == JsStr(<<"f", "o", "l", "d", "e", "r">>)
NameKey == <<"n", "a", "m", "e">>
DirectoryType == JsStr(<<"d", "i", "r", "e", "c", "t", "o", "r", "y">>)

\* String(value) of a scalar.
String(v) == v.s

----------------------------------------------------------------------------
(* sanitizeFilename *)

\* The characters of the class [<>:"/\\|?*]
ForbiddenChars == {"<", ">", ":", "\"", "/", "\\", "|", "?", "*"}
\* The characters \s matches and trim() strips, among those of the model.
IsSpace(c) == c \in {" ", "\t", "\n"}

\* .replace(/[<>:"/\\|?*]/g, '_')
ReplaceForbidden(s) ==
    [i \in 1..Len(s) |-> IF s[i] \in ForbiddenChars THEN "_" ELSE s[i]]

RECURSIVE ReplaceSpaceRuns(_)
\* .replace(/\s+/g, '_'): every maximal run of whitespace becomes one '_'.
ReplaceSpaceRuns(s) ==
    IF s = <<>> THEN <<>>
    ELSE IF IsSpace(s[1])
    THEN LET stop == {i \in 1..Len(s) : ~IsSpace(s[i])}
             next == IF stop = {} THEN Len(s) + 1 ELSE Min(stop)
         IN  <<"_">> \o ReplaceSpaceRuns(SubSeq(s, next, Len(s)))
    ELSE <<s[1]>> \o ReplaceSpaceRuns(Tail(s))

RECURSIVE CollapseUnderscores(_)
\* .replace(/_{2,}/g, '_'): every maximal run of two or more '_' becomes one.
CollapseUnderscores(s) ==
    IF s = <<>> THEN <<>>
    ELSE IF s[1] = "_"
    THEN LET stop == {i \in 1..Len(s) : s[i] # "_"}
             next == IF stop = {} THEN Len(s) + 1 ELSE Min(stop)
         IN  <<"_">> \o CollapseUnderscores(SubSeq(s, next, Len(s)))
    ELSE <<s[1]>> \o CollapseUnderscores(Tail(s))

\* .trim()
Trim(s) ==
    LET keep == {i \in 1..Len(s) : ~IsSpace(s[i])}
    IN  IF keep = {} THEN <<>>
        ELSE SubSeq(s, Min(keep), CHOOSE m \in keep : \A n \in keep : n <= m)

sanitizeFilename(name) ==
    Trim(CollapseUnderscores(ReplaceSpaceRuns(ReplaceForbidden(name))))

----------------------------------------------------------------------------
(* createFileTree: JSON value -> flat object, path -> content *)

RECURSIVE processNode(_, _, _)
RECURSIVE processNodeItems(_, _, _, _)
RECURSIVE processNodeEntries(_, _, _, _)

\* obj.forEach((item, index) => ...) from element i on; ft is fileTree so far.
processNodeItems(ft, items, i, currentPath) ==
    IF i > Len(items) THEN ft
    ELSE LET item == items[i].v
             itemPath == Slash(currentPath, ItemPrefix \o ToDigits(i - 1))
             done == IF IsObject(item)
                     THEN processNode(ft, item, itemPath)
                     ELSE Put(ft, itemPath \o DotTxt, JsStr(String(item)))
         IN  processNodeItems(done, items, i + 1, currentPath)

\* Object.entries(obj).forEach(([key, value]) => ...) from entry i on.
processNodeEntries(ft, entries, i, currentPath) ==
    IF i > Len(entries) THEN ft
    ELSE LET value == entries[i].v
             sanitizedKey == sanitizeFilename(entries[i].k)
             newPath == IF currentPath # <<>>
                        THEN Slash(currentPath, sanitizedKey)
                        ELSE sanitizedKey
             done == IF IsObject(value)
                     THEN processNode(ft, value, newPath)
                     ELSE Put(ft, newPath \o DotTxt, JsStr(String(value)))
         IN  processNodeEntries(done, entries, i + 1, currentPath)

processNode(ft, obj, currentPath) ==
    IF obj.t = "arr" THEN processNodeItems(ft, obj.e, 1, currentPath)
    ELSE IF IsObject(obj) THEN processNodeEntries(ft, obj.e, 1, currentPath)
    ELSE Put(ft,
             (IF currentPath # <<>> THEN currentPath ELSE DataName) \o DotTxt,
             JsStr(String(obj)))

createFileTree(json, basePath) == JsObj(processNode(<<>>, json, basePath))

----------------------------------------------------------------------------
(* createHierarchicalTree: flat object -> list of nodes for display.        *)
(* A node is [name, path, type, children, content]; children is undefined   *)
(* for a file and content is undefined for a folder (both <<>> here, told   *)
(* apart by type).                                                          *)

HierNode(name, path, isFile, content) ==
    [name |-> name, path |-> path,
     type |-> IF isFile THEN "file" ELSE "folder",
     children |-> <<>>,
     content |-> IF isFile THEN content ELSE <<>>]

\* currentLevel.find(node => node.name === part): its index, 0 for undefined
FindNode(level, part) ==
    LET at == {i \in 1..Len(level) : level[i].name = part}
    IN  IF at = {} THEN 0 ELSE Min(at)

RECURSIVE hierAddParts(_, _, _, _, _)
\* parts.forEach((part, index) => ...) from part i on, in currentLevel.
\* Descending into a node found as a file sets currentLevel to undefined and
\* the next part's currentLevel.find throws a TypeError.
hierAddParts(level, parts, i, pathSoFar, content) ==
    LET part == parts[i]
        currentPath == IF pathSoFar # <<>> THEN Slash(pathSoFar, part) ELSE part
        isFile == i = Len(parts)
        found == FindNode(level, part)
        level1 == IF found = 0
                  THEN Append(level, HierNode(part, currentPath, isFile, content))
                  ELSE level
        at == IF found = 0 THEN Len(level1) ELSE found
    IN  IF isFile THEN [ok |-> TRUE, v |-> level1]
        ELSE IF level1[at].type = "file" THEN [ok |-> FALSE, v |-> <<>>]
        ELSE LET below == hierAddParts(level1[at].children, parts, i + 1,
                                       currentPath, content)
             IN  IF below.ok
                 THEN [ok |-> TRUE,
                       v |-> [level1 EXCEPT ![at].children = below.v]]
                 ELSE below

RECURSIVE hierAddFiles(_, _, _)
\* Object.keys(fileTree).forEach(filePath => ...) from key i on.
hierAddFiles(level, entries, i) ==
    IF i > Len(entries) THEN [ok |-> TRUE, v |-> level]
    ELSE LET added == hierAddParts(level, Split(entries[i].k, "/"), 1, <<>>,
                                   String(entries[i].v))
         IN  IF added.ok THEN hierAddFiles(added.v, entries, i + 1) ELSE added

createHierarchicalTree(ft) == hierAddFiles(<<>>, ft.e, 1)

----------------------------------------------------------------------------
(* JSON.stringify(value, null, 2) *)

Spaces(n) == [i \in 1..n |-> " "]

\* A string's characters as JSON.stringify quotes them.
Escaped(chars) ==
    LET esc(c) == CASE c = "\"" -> <<"\\", "\"">>
                    [] c = "\\" -> <<"\\", "\\">>
                    [] c = "\n" -> <<"\\", "n">>
                    [] c = "\t" -> <<"\\", "t">>
                    [] OTHER -> <<c>>
        F[i \in 0..Len(chars)] == IF i = 0 THEN <<>> ELSE F[i - 1] \o esc(chars[i])
    IN  F[Len(chars)]

\* Faulty variant of Quoted: a string is written as it is, as String(value) would.
QuotedAsString(chars) == chars
Quoted(chars) == <<"\"">> \o Escaped(chars) \o <<"\"">>

RECURSIVE JsonStringify(_, _)
RECURSIVE StringifyMembers(_, _, _, _)

\* The members of an array or object from member i on, each on its own line.
StringifyMembers(v, i, indent, first) ==
    IF i > Len(v.e) THEN <<>>
    ELSE (IF first THEN <<>> ELSE <<",">>)
         \o <<"\n">> \o Spaces(indent)
         \o (IF v.t = "obj" THEN Quoted(v.e[i].k) \o <<":", " ">> ELSE <<>>)
         \o JsonStringify(v.e[i].v, indent)
         \o StringifyMembers(v, i + 1, indent, FALSE)

\* The text of v, nested at column indent.
JsonStringify(v, indent) ==
    IF v.t = "str" THEN Quoted(v.s)
    ELSE IF ~IsObject(v) THEN v.s
    ELSE LET open == IF v.t = "arr" THEN "[" ELSE "{"
             close == IF v.t = "arr" THEN "]" ELSE "}"
         IN  IF v.e = <<>> THEN <<open, close>>
             ELSE <<open>> \o StringifyMembers(v, 1, indent + 2, TRUE)
                      \o <<"\n">> \o Spaces(indent) \o <<close>>

----------------------------------------------------------------------------
(* FileConverter: generateFileStructure and buildFileTree *)

\* A string value longer than this gets the extension txt. 
LongText == 100

FileEntry(path, content) == [path |-> path, content |-> content]

RECURSIVE processObject(_, _, _)
RECURSIVE processObjectItems(_, _, _, _)
RECURSIVE processObjectEntries(_, _, _, _)

\* data.forEach((item, index) => ...) from element i on; fs is files so far.
processObjectItems(fs, items, i, currentPath) ==
    IF i > Len(items) THEN fs
    ELSE LET item == items[i].v
             itemPath == Slash(currentPath, ItemPrefix \o ToDigits(i - 1))
             done == IF IsObject(item)
                     THEN processObject(fs, item, itemPath)
                     ELSE Append(fs, FileEntry(itemPath \o DotTxt, String(item)))
         IN  processObjectItems(done, items, i + 1, currentPath)

\* Object.entries(data).forEach(([key, value]) => ...) from entry i on.
processObjectEntries(fs, entries, i, currentPath) ==
    IF i > Len(entries) THEN fs
    ELSE LET key == entries[i].k
             value == entries[i].v
             newPath == IF currentPath # <<>> THEN Slash(currentPath, key) ELSE key
             isTxt == value.t = "str" /\ Len(value.s) > LongText
             done == IF IsObject(value)
                     THEN processObject(fs, value, newPath)
                     ELSE Append(fs,
                             IF isTxt
                             THEN FileEntry(newPath \o DotTxt, String(value))
                             ELSE FileEntry(newPath \o DotJson,
                                            JsonStringify(value, 0)))
         IN  processObjectEntries(done, entries, i + 1, currentPath)

processObject(fs, json, currentPath) ==
    IF json.t = "arr" THEN processObjectItems(fs, json.e, 1, currentPath)
    ELSE IF IsObject(json) THEN processObjectEntries(fs, json.e, 1, currentPath)
    ELSE Append(fs, FileEntry(
             (IF currentPath # <<>> THEN currentPath ELSE DataName) \o DotTxt,
             String(json)))

generateFileStructure(json, path) == processObject(<<>>, json, path)

\* { type: 'file', content }
FileNode(content) ==
    JsObj(<<Entry(TypeKey, FileType), Entry(ContentKey, JsStr(content))>>)
\* { type: 'folder', children }
FolderNode(children) ==
    JsObj(<<Entry(TypeKey, FolderType), Entry(ChildrenKey, JsObj(children))>>)

RECURSIVE buildAddParts(_, _, _, _)
\* parts.forEach((part, index) => ...) from part i on, in the object current.
\* Descending into a file node reads its missing children: current becomes
\* undefined and the next part's access to it throws a TypeError.
buildAddParts(current, parts, i, content) ==
    LET part == parts[i]
    IN  IF i = Len(parts)
        THEN [ok |-> TRUE, v |-> Put(current, part, FileNode(content))]
        ELSE LET cur1 == IF ~Has(current, part)
                         THEN Put(current, part, FolderNode(<<>>))
                         ELSE current
                 node == Get(cur1, part)
             IN  IF ~Has(node.e, ChildrenKey) THEN [ok |-> FALSE, v |-> <<>>]
                 ELSE LET below == buildAddParts(Get(node.e, ChildrenKey).e,
                                                 parts, i + 1, content)
                      IN  IF below.ok
                          THEN [ok |-> TRUE,
                                v |-> Put(cur1, part,
                                          JsObj(Put(node.e, ChildrenKey,
                                                    JsObj(below.v))))]
                          ELSE below

RECURSIVE buildAddFiles(_, _, _)
\* files.forEach(file => ...) from file i on.
buildAddFiles(current, fs, i) ==
    IF i > Len(fs) THEN [ok |-> TRUE, v |-> current]
    ELSE LET added == buildAddParts(current, Split(fs[i].path, "/"), 1,
                                    fs[i].content)
         IN  IF added.ok THEN buildAddFiles(added.v, fs, i + 1) ELSE added

\* The tree as an object, or that building it threw.
buildFileTree(fs) ==
    LET built == buildAddFiles(<<>>, fs, 1)
    IN  IF built.ok THEN Returned(JsObj(built.v)) ELSE Threw

----------------------------------------------------------------------------
(* App: parseJsonToFileStructure *)

\* Object.entries(v) of a value that is neither null nor undefined: the
\* members of an object or array, the characters of a string, nothing for a
\* number or a boolean.
ObjectEntries(v) ==
    IF IsObject(v) THEN v.e
    ELSE IF v.t = "str"
    THEN [i \in 1..Len(v.s) |-> Entry(ToDigits(i - 1), JsStr(<<v.s[i]>>))]
    ELSE <<>>

\* key.includes('.')
HasDot(key) == \E i \in 1..Len(key) : key[i] = "."

RECURSIVE createFileStructure(_, _)
RECURSIVE fileStructureEntries(_, _, _, _)

\* for (const [key, value] of Object.entries(obj)) from entry i on.
fileStructureEntries(structure, entries, i, path) ==
    IF i > Len(entries) THEN structure
    ELSE LET key == entries[i].k
             value == entries[i].v
             currentPath == IF path # <<>> THEN Slash(path, key) ELSE key
             content == IF value.t = "str" THEN value.s
                        ELSE JsonStringify(value, 0)
             extension == IF HasDot(key) THEN <<>> ELSE DotJson
             done == IF IsPlainObject(value)
                     THEN Put(structure, key,
                              JsObj(<<Entry(TypeKey, FolderType),
                                      Entry(PathKey, JsStr(currentPath)),
                                      Entry(ChildrenKey,
                                            createFileStructure(value,
                                                                currentPath))>>))
                     ELSE Put(structure, key \o extension,
                              JsObj(<<Entry(TypeKey, FileType),
                                      Entry(PathKey,
                                            JsStr(currentPath \o extension)),
                                      Entry(ContentKey, JsStr(content))>>))
         IN  fileStructureEntries(done, entries, i + 1, path)

createFileStructure(obj, path) ==
    JsObj(fileStructureEntries(<<>>, ObjectEntries(obj), 1, path))

\* Given the parsed value: Object.entries(null) throws a TypeError, which the
\* catch rethrows as Error('Invalid JSON format').
parseJsonToFileStructure(json) ==
    IF json.t = "null" THEN Threw
    ELSE Returned(createFileStructure(json, <<>>))

----------------------------------------------------------------------------
(* Tree utilities. A tree is an object; a member that is a plain object is  *)
(* a directory and any other member is a file.                              *)

\* !tree || typeof tree !== 'object'
NotATree(t) == Falsy(t) \/ t.t \notin {"obj", "arr", "null"}

RECURSIVE getFilePaths(_, _)
RECURSIVE filePathsFrom(_, _, _)

\* Object.keys(tree).forEach(key => ...) from key i on.
filePathsFrom(entries, i, basePath) ==
    IF i > Len(entries) THEN <<>>
    ELSE LET key == entries[i].k
             value == entries[i].v
             currentPath == IF basePath # <<>> THEN Slash(basePath, key) ELSE key
         IN  (IF IsPlainObject(value) THEN getFilePaths(value, currentPath)
              ELSE <<currentPath>>)
             \o filePathsFrom(entries, i + 1, basePath)

getFilePaths(t, basePath) ==
    IF NotATree(t) THEN <<>> ELSE filePathsFrom(t.e, 1, basePath)

\* Faulty variant of directoryPathsFrom: the directories below are left out.
directoryPathsFromTopOnly(entries, i, basePath) ==
    LET at == {j \in i..Len(entries) : IsPlainObject(entries[j].v)}
        top == SelectSeq([j \in 1..Len(entries) |-> j], LAMBDA j : j \in at)
    IN  [n \in 1..Len(top) |->
            IF basePath # <<>> THEN Slash(basePath, entries[top[n]].k)
            ELSE entries[top[n]].k]

RECURSIVE getDirectoryPaths(_, _)
RECURSIVE directoryPathsFrom(_, _, _)

\* Object.keys(tree).forEach(key => ...) from key i on.
directoryPathsFrom(entries, i, basePath) ==
    IF i > Len(entries) THEN <<>>
    ELSE LET key == entries[i].k
             value == entries[i].v
             currentPath == IF basePath # <<>> THEN Slash(basePath, key) ELSE key
         IN  (IF IsPlainObject(value)
              THEN <<currentPath>> \o getDirectoryPaths(value, currentPath)
              ELSE <<>>)
             \o directoryPathsFrom(entries, i + 1, basePath)

getDirectoryPaths(t, basePath) ==
    IF NotATree(t) THEN <<>> ELSE directoryPathsFrom(t.e, 1, basePath)

RECURSIVE countTreeFiles(_)
RECURSIVE countFilesFrom(_, _)
countFilesFrom(entries, i) ==
    IF i > Len(entries) THEN 0
    ELSE (IF IsPlainObject(entries[i].v) THEN countTreeFiles(entries[i].v) ELSE 1)
         + countFilesFrom(entries, i + 1)

countTreeFiles(t) == IF NotATree(t) THEN 0 ELSE countFilesFrom(t.e, 1)

RECURSIVE countTreeDirectories(_)
RECURSIVE countDirectoriesFrom(_, _)
countDirectoriesFrom(entries, i) ==
    IF i > Len(entries) THEN 0
    ELSE (IF IsPlainObject(entries[i].v)
          THEN 1 + countTreeDirectories(entries[i].v)
          ELSE 0)
         + countDirectoriesFrom(entries, i + 1)

countTreeDirectories(t) ==
    IF NotATree(t) THEN 0 ELSE countDirectoriesFrom(t.e, 1)

RECURSIVE getTreeDepth(_)
RECURSIVE maxDepthFrom(_, _, _)
\* Faulty variant of maxDepthFrom: a directory counts for the depth below it
\* only, not for itself.
maxDepthFromBelow(entries, i, maxDepth) ==
    IF i > Len(entries) THEN maxDepth
    ELSE LET depth == getTreeDepth(entries[i].v)
         IN  maxDepthFrom(entries, i + 1,
                          IF IsPlainObject(entries[i].v) /\ depth > maxDepth
                          THEN depth ELSE maxDepth)

\* Object.values(tree).forEach(value => ...) from value i on.
maxDepthFrom(entries, i, maxDepth) ==
    IF i > Len(entries) THEN maxDepth
    ELSE LET depth == 1 + getTreeDepth(entries[i].v)
         IN  maxDepthFrom(entries, i + 1,
                          IF IsPlainObject(entries[i].v) /\ depth > maxDepth
                          THEN depth ELSE maxDepth)

getTreeDepth(t) == IF NotATree(t) THEN 0 ELSE maxDepthFrom(t.e, 1, 0)

RECURSIVE treeAddParts(_, _, _, _)
\* Faulty variant of treeAddParts: a directory on the way is always replaced by an
\* empty one, whether it exists or not.
treeAddPartsAlwaysFresh(current, parts, i, defaultContent) ==
    LET part == parts[i]
    IN  IF i = Len(parts) THEN Put(current, part, defaultContent)
        ELSE Put(current, part,
                 JsObj(treeAddParts(<<>>, parts, i + 1, defaultContent)))

\* parts.forEach((part, index) => ...) from part i on, in the object current.
treeAddParts(current, parts, i, defaultContent) ==
    LET part == parts[i]
    IN  IF i = Len(parts) THEN Put(current, part, defaultContent)
        ELSE LET fresh == \/ ~Has(current, part)
                          \/ Falsy(Get(current, part))
                          \/ ~IsObject(Get(current, part))
                 cur1 == IF fresh THEN Put(current, part, EmptyObj) ELSE current
                 node == Get(cur1, part)
             IN  Put(cur1, part,
                     [node EXCEPT !.e = treeAddParts(node.e, parts, i + 1,
                                                     defaultContent)])

RECURSIVE treeAddPaths(_, _, _, _)
\* paths.forEach(path => ...) from path i on.
treeAddPaths(current, paths, i, defaultContent) ==
    IF i > Len(paths) THEN current
    ELSE LET parts == NonEmptyParts(Split(paths[i], "/"))
             done == IF paths[i] = <<>> \/ parts = <<>> THEN current
                     ELSE treeAddParts(current, parts, 1, defaultContent)
         IN  treeAddPaths(done, paths, i + 1, defaultContent)

createTreeFromPaths(paths, defaultContent) ==
    JsObj(treeAddPaths(<<>>, paths, 1, defaultContent))

RECURSIVE InsertSorted(_, _)
InsertSorted(list, x) ==
    IF list = <<>> THEN <<x>>
    ELSE IF StrLess(x, list[1]) THEN <<x>> \o list
    ELSE <<list[1]>> \o InsertSorted(Tail(list), x)

\* Faulty variant of ArraySort: the list comes back in reverse instead of sorted.
ArrayReversed(list) == [i \in 1..Len(list) |-> list[Len(list) + 1 - i]]

RECURSIVE ArraySort(_)
\* array.sort() on strings: ascending by code units, stable.
ArraySort(list) ==
    IF list = <<>> THEN <<>>
    ELSE InsertSorted(ArraySort(SubSeq(list, 1, Len(list) - 1)), list[Len(list)])

RECURSIVE sortTree(_)
RECURSIVE sortedPut(_, _, _, _, _)

\* keys.forEach(key => sorted[key] = ...) from key i on; the directories are
\* sorted themselves, the files are taken as they are.
sortedPut(result, t, keys, i, recurse) ==
    IF i > Len(keys) THEN result
    ELSE sortedPut(Put(result, keys[i],
                       IF recurse THEN sortTree(Get(t.e, keys[i]))
                       ELSE Get(t.e, keys[i])),
                   t, keys, i + 1, recurse)

sortTree(t) ==
    IF NotATree(t) THEN t
    ELSE LET directories == SelectSeq(Keys(t.e),
                                LAMBDA k : IsPlainObject(Get(t.e, k)))
             fileKeys == SelectSeq(Keys(t.e),
                                LAMBDA k : ~IsPlainObject(Get(t.e, k)))
             withDirs == sortedPut(<<>>, t, ArraySort(directories), 1, TRUE)
         IN  JsObj(sortedPut(withDirs, t, ArraySort(fileKeys), 1, FALSE))

RECURSIVE isValidTree(_)
RECURSIVE everyValue(_, _)

\* Faulty variant of everyValue: a value that is not a directory has to be a
\* value that is no object at all.
everyValueNoObjectLeaf(entries, i) ==
    IF i > Len(entries) THEN TRUE
    ELSE /\ IF IsPlainObject(entries[i].v) THEN isValidTree(entries[i].v)
            ELSE ~IsObject(entries[i].v)
         /\ everyValue(entries, i + 1)

\* Object.values(obj).every(value => ...) from value i on: a directory is
\* validated in turn, a file can be any value.
everyValue(entries, i) ==
    IF i > Len(entries) THEN TRUE
    ELSE /\ IF IsPlainObject(entries[i].v) THEN isValidTree(entries[i].v)
            ELSE TRUE
         /\ everyValue(entries, i + 1)

isValidTree(obj) ==
    IF Falsy(obj) \/ ~IsObject(obj) \/ obj.t = "arr" THEN FALSE
    ELSE everyValue(obj.e, 1)

\* Faulty variant of getTreeStats: the root is counted among the nodes.
getTreeStatsWithRoot(t) ==
    [files |-> countTreeFiles(t),
     directories |-> countTreeDirectories(t),
     depth |-> getTreeDepth(t),
     totalNodes |-> countTreeFiles(t) + countTreeDirectories(t) + 1]

getTreeStats(t) ==
    [files |-> countTreeFiles(t),
     directories |-> countTreeDirectories(t),
     depth |-> getTreeDepth(t),
     totalNodes |-> countTreeFiles(t) + countTreeDirectories(t)]

RECURSIVE flattenTree(_, _)
RECURSIVE flattenFrom(_, _, _)

\* { name, path, type: 'directory', children }
DirectoryEntry(key, currentPath, value) ==
    JsObj(<<Entry(NameKey, JsStr(key)), Entry(PathKey, JsStr(currentPath)),
            Entry(TypeKey, DirectoryType),
            Entry(ChildrenKey, JsNum(ToDigits(Len(Keys(value.e)))))>>)

\* { name, path, type: 'file', content }
FlatFileEntry(key, currentPath, value) ==
    JsObj(<<Entry(NameKey, JsStr(key)), Entry(PathKey, JsStr(currentPath)),
            Entry(TypeKey, FileType), Entry(ContentKey, value)>>)

\* Faulty variant of flattenFrom: the entry of a directory is pushed after the
\* entries of what is in it.
flattenFromChildrenFirst(entries, i, parentPath) ==
    IF i > Len(entries) THEN <<>>
    ELSE LET key == entries[i].k
             value == entries[i].v
             currentPath == IF parentPath # <<>> THEN Slash(parentPath, key)
                            ELSE key
         IN  (IF IsPlainObject(value)
              THEN flattenTree(value, currentPath)
                       \o <<DirectoryEntry(key, currentPath, value)>>
              ELSE <<FlatFileEntry(key, currentPath, value)>>)
             \o flattenFrom(entries, i + 1, parentPath)

\* Object.keys(tree).forEach(key => ...) from key i on.
flattenFrom(entries, i, parentPath) ==
    IF i > Len(entries) THEN <<>>
    ELSE LET key == entries[i].k
             value == entries[i].v
             currentPath == IF parentPath # <<>> THEN Slash(parentPath, key)
                            ELSE key
         IN  (IF IsPlainObject(value)
              THEN <<DirectoryEntry(key, currentPath, value)>>
                       \o flattenTree(value, currentPath)
              ELSE <<FlatFileEntry(key, currentPath, value)>>)
             \o flattenFrom(entries, i + 1, parentPath)

flattenTree(t, parentPath) ==
    IF NotATree(t) THEN <<>> ELSE flattenFrom(t.e, 1, parentPath)

\* Names every object inherits from Object.prototype; each is a function.
InheritedNames ==
    {<<"c", "o", "n", "s", "t", "r", "u", "c", "t", "o", "r">>,
     <<"t", "o", "S", "t", "r", "i", "n", "g">>,
     <<"v", "a", "l", "u", "e", "O", "f">>,
     <<"h", "a", "s", "O", "w", "n", "P", "r", "o", "p", "e", "r", "t", "y">>}
JsFunction(name) == [t |-> "fn", s |-> name, e |-> <<>>]
LengthName == <<"l", "e", "n", "g", "t", "h">>

\* part in obj: obj has the property, its own or an inherited one.
In(obj, part) ==
    \/ Has(obj.e, part)
    \/ part \in InheritedNames
    \/ obj.t = "arr" /\ part = LengthName

\* obj[part] for a part that is in obj.
Read(obj, part) ==
    IF Has(obj.e, part) THEN Get(obj.e, part)
    ELSE IF obj.t = "arr" /\ part = LengthName THEN JsNum(ToDigits(Len(obj.e)))
    ELSE JsFunction(part)

RECURSIVE walkParts(_, _, _)
\* for (const part of pathParts) ... from part i on.
walkParts(current, pathParts, i) ==
    IF i > Len(pathParts) THEN current
    ELSE IF Falsy(current) \/ ~IsObject(current) \/ ~In(current, pathParts[i])
    THEN JsNull
    ELSE walkParts(Read(current, pathParts[i]), pathParts, i + 1)

findNodeByPath(t, p) ==
    IF Falsy(t) \/ p = <<>> THEN JsNull
    ELSE walkParts(t, NonEmptyParts(Split(p, "/")), 1)

----------------------------------------------------------------------------
(* The same functions on a store of objects. Above, a value stands for      *)
(* itself; here an object or array is a cell of the store and a property    *)
(* holds a scalar or a reference to a cell, so that an assignment           *)
(* obj[key] = value has a target and two properties can hold the same       *)
(* object.                                                                  *)

Ref(a) == [t |-> "ref", s |-> ToDigits(a), e |-> <<>>]
IsRef(v) == v.t = "ref"
Addr(r) == NumVal(r.s)

RECURSIVE Alloc(_, _)
RECURSIVE AllocEntries(_, _, _, _)
\* The members of a literal from member i on, put into the store h.
AllocEntries(h, entries, i, done) ==
    IF i > Len(entries) THEN [h |-> h, e |-> done]
    ELSE LET member == Alloc(h, entries[i].v)
         IN  AllocEntries(member.h, entries, i + 1,
                          Append(done, Entry(entries[i].k, member.r)))

\* The value v put into the store h: a scalar is itself, an object or array
\* is a new cell.
Alloc(h, v) ==
    IF ~IsObject(v) THEN [h |-> h, r |-> v]
    ELSE LET members == AllocEntries(h, v.e, 1, <<>>)
             h1 == Append(members.h, [t |-> v.t, s |-> <<>>, e |-> members.e])
         IN  [h |-> h1, r |-> Ref(Len(h1))]

\* typeof v === 'object' && v !== null, for a property value v
IsObjectIn(h, v) == IsRef(v)
\* value && typeof value === 'object' && !Array.isArray(value)
IsPlainObjectIn(h, v) == IsRef(v) /\ h[Addr(v)].t = "obj"
\* obj[key] = value, obj being the cell at address a
Write(h, a, key, value) == [h EXCEPT ![a].e = Put(h[a].e, key, value)]

RECURSIVE storeSortTree(_, _)
RECURSIVE storeSortedPut(_, _, _, _, _, _)

\* keys.forEach(key => sorted[key] = ...) from key i on.
storeSortedPut(h, sortedAt, t, keys, i, recurse) ==
    IF i > Len(keys) THEN h
    ELSE LET value == Get(h[Addr(t)].e, keys[i])
             sub == IF recurse THEN storeSortTree(h, value)
                    ELSE [h |-> h, r |-> value]
         IN  storeSortedPut(Write(sub.h, sortedAt, keys[i], sub.r),
                            sortedAt, t, keys, i + 1, recurse)

\* sortTree(t) in the store h: the store afterwards and what is returned.
storeSortTree(h, t) ==
    IF ~IsRef(t) THEN [h |-> h, r |-> t]
    ELSE LET members == h[Addr(t)].e
             h1 == Append(h, EmptyObj)
             sortedAt == Len(h1)
             directories == SelectSeq(Keys(members),
                                LAMBDA k : IsPlainObjectIn(h, Get(members, k)))
             fileKeys == SelectSeq(Keys(members),
                                LAMBDA k : ~IsPlainObjectIn(h, Get(members, k)))
             withDirs == storeSortedPut(h1, sortedAt, t,
                                        ArraySort(directories), 1, TRUE)
         IN  [h |-> storeSortedPut(withDirs, sortedAt, t,
                                   ArraySort(fileKeys), 1, FALSE),
              r |-> Ref(sortedAt)]

RECURSIVE storeAddParts(_, _, _, _, _)
\* parts.forEach((part, index) => ...) from part i on, current being the cell
\* at address current.
storeAddParts(h, current, parts, i, defaultContent) ==
    LET part == parts[i]
        members == h[current].e
    IN  IF i = Len(parts) THEN Write(h, current, part, defaultContent)
        ELSE LET fresh == \/ ~Has(members, part)
                          \/ ~IsObjectIn(h, Get(members, part))
                 h1 == IF fresh
                       THEN Write(Append(h, EmptyObj), current, part,
                                  Ref(Len(h) + 1))
                       ELSE h
             IN  storeAddParts(h1, Addr(Get(h1[current].e, part)), parts, i + 1,
                               defaultContent)

RECURSIVE storeAddPaths(_, _, _, _, _)
\* paths.forEach(path => ...) from path i on; a path can be any value.
storeAddPaths(h, treeAt, paths, i, defaultContent) ==
    IF i > Len(paths) THEN h
    ELSE LET skipped == Falsy(paths[i]) \/ paths[i].t # "str"
             parts == NonEmptyParts(Split(paths[i].s, "/"))
             done == IF skipped \/ parts = <<>> THEN h
                     ELSE storeAddParts(h, treeAt, parts, 1, defaultContent)
         IN  storeAddPaths(done, treeAt, paths, i + 1, defaultContent)

\* createTreeFromPaths(paths, defaultContent) in the store h.
storeCreateTreeFromPaths(h, paths, defaultContent) ==
    LET h1 == Append(h, EmptyObj)
    IN  [h |-> storeAddPaths(h1, Len(h1), paths, 1, defaultContent),
         r |-> Ref(Len(h1))]

----------------------------------------------------------------------------
(* JSON.parse, on texts whose numbers are non-negative integers and whose   *)
(* strings escape nothing but quote, backslash, slash, newline and tab.     *)

JsBool(b) == [t |-> "bool",
              s |-> IF b THEN <<"t", "r", "u", "e">>
                    ELSE <<"f", "a", "l", "s", "e">>,
              e |-> <<>>]
Whitespace == {" ", "\t", "\n", "\r"}
\* The parser's answer: whether it got a value, the value, where it goes on.
Parsed(v, i) == [ok |-> TRUE, v |-> v, i |-> i]
NotParsed == [ok |-> FALSE, v |-> JsNull, i |-> 0]
CharAt(s, i) == IF i >= 1 /\ i <= Len(s) THEN s[i] ELSE "end"

RECURSIVE SkipWhitespace(_, _)
SkipWhitespace(s, i) ==
    IF CharAt(s, i) \in Whitespace THEN SkipWhitespace(s, i + 1) ELSE i

\* null, true or false at i.
ParseWord(s, i, word, v) ==
    IF i + Len(word) - 1 <= Len(s) /\ SubSeq(s, i, i + Len(word) - 1) = word
    THEN Parsed(v, i + Len(word))
    ELSE NotParsed

RECURSIVE DigitsEnd(_, _)
DigitsEnd(s, i) == IF IsDigit(CharAt(s, i)) THEN DigitsEnd(s, i + 1) ELSE i

\* A number at i: 0, or digits that do not start with 0.
ParseNumber(s, i) ==
    LET j == IF s[i] = "0" THEN i + 1 ELSE DigitsEnd(s, i)
    IN  Parsed(JsNum(SubSeq(s, i, j - 1)), j)

RECURSIVE ParseChars(_, _, _)
\* The characters of a string from i on, up to the closing quote.
ParseChars(s, i, chars) ==
    LET c == CharAt(s, i)
        e == CharAt(s, i + 1)
    IN  IF c = "end" \/ c = "\n" \/ c = "\t" \/ c = "\r" THEN NotParsed
        ELSE IF c = "\"" THEN Parsed(chars, i + 1)
        ELSE IF c # "\\" THEN ParseChars(s, i + 1, Append(chars, c))
        ELSE IF e \in {"\"", "\\", "/"}
        THEN ParseChars(s, i + 2, Append(chars, e))
        ELSE IF e = "n" THEN ParseChars(s, i + 2, Append(chars, "\n"))
        ELSE IF e = "t" THEN ParseChars(s, i + 2, Append(chars, "\t"))
        ELSE NotParsed

RECURSIVE ParseValue(_, _)
RECURSIVE ParseItems(_, _, _)
RECURSIVE ParseMembers(_, _, _)

\* The items of an array, the next one at i.
ParseItems(s, i, items) ==
    LET item == ParseValue(s, i)
        j == SkipWhitespace(s, item.i)
        more == Append(items, Entry(ToDigits(Len(items)), item.v))
    IN  IF ~item.ok THEN NotParsed
        ELSE IF CharAt(s, j) = "," THEN ParseItems(s, j + 1, more)
        ELSE IF CharAt(s, j) = "]" THEN Parsed(JsArr(more), j + 1)
        ELSE NotParsed

\* The members of an object, the next one at i; of two members with one key
\* the later one gives the value.
ParseMembers(s, i, members) ==
    LET k == SkipWhitespace(s, i)
        key == IF CharAt(s, k) = "\"" THEN ParseChars(s, k + 1, <<>>)
               ELSE NotParsed
        colon == SkipWhitespace(s, key.i)
        value == IF key.ok /\ CharAt(s, colon) = ":"
                 THEN ParseValue(s, colon + 1)
                 ELSE NotParsed
        j == SkipWhitespace(s, value.i)
        more == Put(members, key.v, value.v)
    IN  IF ~value.ok THEN NotParsed
        ELSE IF CharAt(s, j) = "," THEN ParseMembers(s, j + 1, more)
        ELSE IF CharAt(s, j) = "}" THEN Parsed(JsObj(more), j + 1)
        ELSE NotParsed

\* The value that starts at i, after whitespace.
ParseValue(s, i) ==
    LET j == SkipWhitespace(s, i)
        c == CharAt(s, j)
    IN  IF c = "{"
        THEN IF CharAt(s, SkipWhitespace(s, j + 1)) = "}"
             THEN Parsed(EmptyObj, SkipWhitespace(s, j + 1) + 1)
             ELSE ParseMembers(s, j + 1, <<>>)
        ELSE IF c = "["
        THEN IF CharAt(s, SkipWhitespace(s, j + 1)) = "]"
             THEN Parsed(JsArr(<<>>), SkipWhitespace(s, j + 1) + 1)
             ELSE ParseItems(s, j + 1, <<>>)
        ELSE IF c = "\"" 
        THEN LET chars == ParseChars(s, j + 1, <<>>)
             IN  IF chars.ok THEN Parsed(JsStr(chars.v), chars.i) ELSE NotParsed
        ELSE IF c = "n" THEN ParseWord(s, j, <<"n", "u", "l", "l">>, JsNull)
        ELSE IF c = "t" THEN ParseWord(s, j, <<"t", "r", "u", "e">>, JsBool(TRUE))
        ELSE IF c = "f"
        THEN ParseWord(s, j, <<"f", "a", "l", "s", "e">>, JsBool(FALSE))
        ELSE IF IsDigit(c) THEN ParseNumber(s, j)
        ELSE NotParsed

\* JSON.parse(text): the value, or a SyntaxError thrown.
JsonParse(text) ==
    LET value == ParseValue(text, 1)
    IN  IF value.ok /\ SkipWhitespace(text, value.i) > Len(text)
        THEN Returned(value.v)
        ELSE Threw

----------------------------------------------------------------------------
(* The two components: App and FileConverter *)

\* The messages the components show.
InvalidJsonFormat == "Invalid JSON format"
FailedToGenerateZip == "Failed to generate ZIP file"
FailedToCreateZip == "Failed to create ZIP file"
SelectValidJsonFile == "Please select a valid JSON file"
\* file.type of a JSON file
JsonFileType == "application/json"

\* App: parseJsonToFileStructure(jsonData) of a string: JSON.parse, then the
\* structure; whatever is thrown is rethrown as Error('Invalid JSON format').
parseJsonTextToFileStructure(jsonText) ==
    LET parsed == JsonParse(jsonText)
    IN  IF parsed.ok THEN parseJsonToFileStructure(parsed.v) ELSE Threw

\* FileConverter: const files = jsonData ? generateFileStructure(jsonData) : []
derivedFiles(parsed) ==
    IF Falsy(parsed) THEN <<>> ELSE generateFileStructure(parsed, <<>>)

\* FileConverter: const fileTree = files.length > 0 ? buildFileTree(files) : {}
derivedFileTree(parsed) ==
    IF Len(derivedFiles(parsed)) > 0 THEN buildFileTree(derivedFiles(parsed))
    ELSE Returned(EmptyObj)

RECURSIVE appFoldersFrom(_, _, _)
\* App.renderFileTree: the paths of the folders drawn, which are those at the
\* top and those in a folder drawn open.
appFoldersFrom(entries, i, open) ==
    IF i > Len(entries) THEN {}
    ELSE LET item == entries[i].v
             itemPath == Get(item.e, PathKey).s
             below == IF itemPath \in open
                      THEN appFoldersFrom(Get(item.e, ChildrenKey).e, 1, open)
                      ELSE {}
         IN  (IF Get(item.e, TypeKey) = FolderType
              THEN {itemPath} \cup below ELSE {})
             \cup appFoldersFrom(entries, i + 1, open)

RECURSIVE converterFoldersFrom(_, _, _, _)
\* FileConverter.renderFileTree: the same, the path being the names joined.
converterFoldersFrom(entries, i, path, open) ==
    IF i > Len(entries) THEN {}
    ELSE LET node == entries[i].v
             currentPath == IF path # <<>> THEN Slash(path, entries[i].k)
                            ELSE entries[i].k
             below == IF currentPath \in open
                      THEN converterFoldersFrom(Get(node.e, ChildrenKey).e, 1,
                                                currentPath, open)
                      ELSE {}
         IN  (IF Get(node.e, TypeKey) = FolderType
              THEN {currentPath} \cup below ELSE {})
             \cup converterFoldersFrom(entries, i + 1, path, open)

\* toggleFolder: newSet.has(path) ? delete : add
toggled(open, path) ==
    IF path \in open THEN open \ {path} ELSE open \cup {path}

----------------------------------------------------------------------------
(* Inputs *)

JsonKeys == {<<"a">>, <<"_">>, <<":">>, <<>>}
JsonScalars == {JsNull, JsNum(<<"1">>), JsStr(<<"x">>)}

RECURSIVE JsonOfSize(_)
RECURSIVE MembersOfSize(_, _)

\* The member lists of an object (or array) whose values have m values in
\* all, as JSON.parse builds them: member after member.
MembersOfSize(kind, m) ==
    IF m = 0 THEN {<<>>}
    ELSE UNION {UNION {
             IF kind = "arr"
             THEN {Append(es, Entry(ToDigits(Len(es)), v)) : v \in JsonOfSize(j)}
             ELSE {Put(es, key, v) :
                      key \in {k \in JsonKeys : ~Has(es, k)}, v \in JsonOfSize(j)}
             : es \in MembersOfSize(kind, m - j)} : j \in 1..m}

\* The JSON values made of exactly n values.
JsonOfSize(n) ==
    IF n = 1 THEN JsonScalars \cup {EmptyObj, JsArr(<<>>)}
    ELSE {JsObj(es) : es \in MembersOfSize("obj", n - 1)}
         \cup {JsArr(es) : es \in MembersOfSize("arr", n - 1)}

Members(list) == [i \in 1..Len(list) |-> Entry(list[i][1], list[i][2])]
Items(list) == [i \in 1..Len(list) |-> Entry(ToDigits(i - 1), list[i])]

\* [1, 2, {"x": 3}]
ArrayScenario ==
    JsArr(Items(<<JsNum(<<"1">>), JsNum(<<"2">>),
                  JsObj(Members(<<<< <<"x">>, JsNum(<<"3">>) >>>>))>>))
\* {"name": "Alice", "age": 30}
ObjectScenario ==
    JsObj(Members(<< << <<"n", "a", "m", "e">>,
                        JsStr(<<"A", "l", "i", "c", "e">>) >>,
                     << <<"a", "g", "e">>, JsNum(<<"3", "0">>) >> >>))
\* "hello"
ScalarScenario == JsStr(<<"h", "e", "l", "l", "o">>)
\* {"a": 1, "a.txt": {"b": 2}}
FileThenFolderTxt ==
    JsObj(Members(<< << <<"a">>, JsNum(<<"1">>) >>,
                     << <<"a">> \o DotTxt,
                        JsObj(Members(<<<< <<"b">>, JsNum(<<"2">>) >>>>)) >> >>))
\* {"a": 1, "a.json": {"b": 2}}
FileThenFolderJson ==
    JsObj(Members(<< << <<"a">>, JsNum(<<"1">>) >>,
                     << <<"a">> \o DotJson,
                        JsObj(Members(<<<< <<"b">>, JsNum(<<"2">>) >>>>)) >> >>))
\* {"a": {"b": 1}, "a/b": 2}
SlashInKey ==
    JsObj(Members(<< << <<"a">>,
                        JsObj(Members(<<<< <<"b">>, JsNum(<<"1">>) >>>>)) >>,
                     << <<"a", "/", "b">>, JsNum(<<"2">>) >> >>))

\* {"a/b": 2}
FlatSlashInKey == JsObj(Members(<<<< <<"a", "/", "b">>, JsNum(<<"2">>) >>>>))

Scenarios == {ArrayScenario, ObjectScenario, ScalarScenario,
              FileThenFolderTxt, FileThenFolderJson, SlashInKey, FlatSlashInKey}

JsonInputs == UNION {JsonOfSize(n) : n \in 1..MaxNodes} \cup Scenarios

TreeNames == {<<"a">>, <<"b">>, <<"1">>, <<>>}
TreeContents == {JsStr(<<"x">>)}

RECURSIVE TreeMembers(_)
\* The member lists of a tree with m nodes below it, built member after member.
TreeMembers(m) ==
    IF m = 0 THEN {<<>>}
    ELSE UNION {UNION {
             {Put(es, name, node) :
                 name \in {k \in TreeNames : ~Has(es, k)},
                 node \in IF j = 1 THEN TreeContents \cup {EmptyObj}
                          ELSE {JsObj(sub) : sub \in TreeMembers(j - 1)}}
             : es \in TreeMembers(m - j)} : j \in 1..m}

\* {"a": {"b": {"c": 1}}}
DepthScenario ==
    JsObj(Members(<<<< <<"a">>,
        JsObj(Members(<<<< <<"b">>,
            JsObj(Members(<<<< <<"c">>, JsNum(<<"1">>) >>>>)) >>>>)) >>>>))

\* {"a/b": "x"}, {"a": "x", "a/b": "x"}, {"10": {}, "9": {}, "b": "x"}
TreeScenarios ==
    {DepthScenario,
     JsObj(Members(<<<< <<"a", "/", "b">>, JsStr(<<"x">>) >>>>)),
     JsObj(Members(<< << <<"a">>, JsStr(<<"x">>) >>,
                      << <<"a", "/", "b">>, JsStr(<<"x">>) >> >>)),
     JsObj(Put(Put(Put(<<>>, <<"1", "0">>, EmptyObj), <<"9">>, EmptyObj),
               <<"b">>, JsStr(<<"x">>)))}

Trees == {JsObj(es) : es \in UNION {TreeMembers(m) : m \in 0..MaxEntries}}
             \cup TreeScenarios

\* The trees a path is looked up in.
LookupTrees ==
    {JsObj(es) : es \in UNION {TreeMembers(m) : m \in 0..MaxLookupNodes}}
        \cup TreeScenarios
\* '', '/', 'a', 'b', 'a/b', '/a//b/', 'a/b/a', '1', 'constructor',
\* 'a/constructor', 'constructor/a'
LookupPaths ==
    {<<>>, <<"/">>, <<"a">>, <<"b">>, <<"a", "/", "b">>,
     <<"/", "a", "/", "/", "b", "/">>, <<"a", "/", "b", "/", "a">>, <<"1">>,
     <<"c", "o", "n", "s", "t", "r", "u", "c", "t", "o", "r">>,
     <<"a", "/", "c", "o", "n", "s", "t", "r", "u", "c", "t", "o", "r">>,
     <<"c", "o", "n", "s", "t", "r", "u", "c", "t", "o", "r", "/", "a">>}

\* What a list of paths can hold: paths, and entries that are no paths.
PathEntries ==
    {JsStr(<<"a">>), JsStr(<<"b">>), JsStr(<<"a", "/", "b">>),
     JsStr(<<"/", "a", "/", "/", "b", "/">>), JsStr(<<>>), JsNull,
     JsNum(<<"1">>)}
PathLists == UNION {[1..n -> PathEntries] : n \in 0..MaxPaths}
\* '' (the default), 'x', null, [] and {}
DefaultContents ==
    {JsStr(<<>>), JsStr(<<"x">>), JsNull, JsArr(<<>>), EmptyObj}

NameChars == {"a", "_", " ", ":"}
\* "my:key name" and a name with every forbidden character
NameScenarios ==
    {<<"m", "y", ":", "k", "e", "y", " ", "n", "a", "m", "e">>,
     <<"<", ">", ":", "\"", "/", "\\", "|", "?", "*", "\t", "\n", "a">>}
Names == UNION {[1..n -> NameChars] : n \in 0..MaxNameLen} \cup NameScenarios

\* What is typed or uploaded: nothing, a blank, a text cut short, and the
\* texts of null, 0, {"a": 1} and {"b": {"c": 1}}.
EmptyText == <<>>
BlankText == <<" ">>
CutShortText == <<"{">>
SessionJson ==
    {JsNull, JsNum(<<"0">>),
     JsObj(Members(<< << <<"a">>, JsNum(<<"1">>) >> >>)),
     JsObj(Members(<< << <<"b">>,
                         JsObj(Members(<< << <<"c">>, JsNum(<<"1">>) >> >>))
                      >> >>))}
SessionTexts ==
    {EmptyText, BlankText, CutShortText}
    \cup {JsonStringify(v, 0) : v \in SessionJson}

\* event.target.files[0]: no file, or a file of some type holding some text.
NoFile == [present |-> FALSE, type |-> "", text |-> <<>>]
UploadedFiles ==
    {NoFile}
    \cup {[present |-> TRUE, type |-> type, text |-> text] :
             type \in {JsonFileType, "text/plain"}, text \in SessionTexts}

----------------------------------------------------------------------------
(* The functions applied to the inputs *)

NoList == [ok |-> TRUE, v |-> <<>>]
NoStats == [files |-> 0, directories |-> 0, depth |-> 0, totalNodes |-> 0]
\* What is loaded: the input text and structure of App, the data of
\* FileConverter.
Loaded(text, structure, parsed) ==
    [jsonInput |-> text, fileStructure |-> structure, jsonData |-> parsed]
NothingLoaded == Loaded(<<>>, JsNull, JsNull)
InputEvent(text) == [event |-> "input", text |-> text]
ClearEvent == [event |-> "clear", text |-> <<>>]
NoEvent == [event |-> "none", text |-> <<>>]

Init ==
    /\ op = "idle"
    /\ data = JsNull
    /\ fileTree = EmptyObj
    /\ hierarchy = NoList
    /\ files = <<>>
    /\ preview = Returned(EmptyObj)
    /\ fileStructure = Returned(EmptyObj)
    /\ filename = <<>>
    /\ sanitized = <<>>
    /\ tree = EmptyObj
    /\ rebuilt = EmptyObj
    /\ sorted = EmptyObj
    /\ resorted = EmptyObj
    /\ valid = FALSE
    /\ treeStats = NoStats
    /\ flat = <<>>
    /\ lookup = <<>>
    /\ foundNode = JsNull
    /\ pathList = <<>>
    /\ filePaths = <<>>
    /\ directoryPaths = <<>>
    /\ store0 = <<>>
    /\ store = <<>>
    /\ given = JsNull
    /\ made = JsNull
    /\ mounted = "none"
    /\ jsonInput = <<>>
    /\ heldStructure = JsNull
    /\ jsonData = JsNull
    /\ error = ""
    /\ isProcessing = FALSE
    /\ isConverting = FALSE
    /\ expandedFolders = {}
    /\ reading = {}
    /\ archive = "none"
    /\ downloads = 0
    /\ started = NothingLoaded
    /\ lastEvent = NoEvent
    /\ touched = FALSE

\* createFileTree(v)
CreateFileTree ==
    /\ op = "idle"
    /\ \E v \in JsonInputs :
        /\ op' = "createFileTree"
        /\ data' = v
        /\ fileTree' = createFileTree(v, <<>>)
        /\ UNCHANGED <<utility, session, hierarchy, files, preview, fileStructure, filename,
                       sanitized, tree, rebuilt, sorted, resorted>>

\* createHierarchicalTree(fileTree) on the flat tree just built
CreateHierarchicalTree ==
    /\ op = "createFileTree"
    /\ op' = "createHierarchicalTree"
    /\ hierarchy' = createHierarchicalTree(fileTree)
    /\ UNCHANGED <<utility, session, data, fileTree, files, preview, fileStructure, filename,
                   sanitized, tree, rebuilt, sorted, resorted>>

\* generateFileStructure(v)
GenerateFileStructure ==
    /\ op = "idle"
    /\ \E v \in JsonInputs :
        /\ op' = "generateFileStructure"
        /\ data' = v
        /\ files' = generateFileStructure(v, <<>>)
        /\ UNCHANGED <<utility, session, fileTree, hierarchy, preview, fileStructure, filename,
                       sanitized, tree, rebuilt, sorted, resorted>>

\* buildFileTree(files) on the list just generated
BuildFileTree ==
    /\ op = "generateFileStructure"
    /\ op' = "buildFileTree"
    /\ preview' = buildFileTree(files)
    /\ UNCHANGED <<utility, session, data, fileTree, hierarchy, files, fileStructure, filename,
                   sanitized, tree, rebuilt, sorted, resorted>>

\* parseJsonToFileStructure on the parsed value v
ParseJsonToFileStructure ==
    /\ op = "idle"
    /\ \E v \in JsonInputs :
        /\ op' = "parseJsonToFileStructure"
        /\ data' = v
        /\ fileStructure' = parseJsonToFileStructure(v)
        /\ UNCHANGED <<utility, session, fileTree, hierarchy, files, preview, filename, sanitized,
                       tree, rebuilt, sorted, resorted>>

\* sanitizeFilename(name)
SanitizeFilename ==
    /\ op = "idle"
    /\ \E name \in Names :
        /\ op' = "sanitizeFilename"
        /\ filename' = name
        /\ sanitized' = sanitizeFilename(name)
        /\ UNCHANGED <<utility, session, data, fileTree, hierarchy, files, preview, fileStructure,
                       tree, rebuilt, sorted, resorted>>

\* createTreeFromPaths(getFilePaths(t), '')
CreateTreeFromPaths ==
    /\ op = "idle"
    /\ \E t \in Trees :
        /\ op' = "createTreeFromPaths"
        /\ tree' = t
        /\ rebuilt' = createTreeFromPaths(getFilePaths(t, <<>>), JsStr(<<>>))
        /\ UNCHANGED <<utility, session, data, fileTree, hierarchy, files, preview, fileStructure,
                       filename, sanitized, sorted, resorted>>

\* sortTree(t), and sortTree of its result
SortTree ==
    /\ op = "idle"
    /\ \E t \in Trees :
        /\ op' = "sortTree"
        /\ tree' = t
        /\ sorted' = sortTree(t)
        /\ resorted' = sortTree(sortTree(t))
        /\ UNCHANGED <<utility, session, data, fileTree, hierarchy, files, preview, fileStructure,
                       filename, sanitized, rebuilt>>

\* isValidTree(v)
IsValidTree ==
    /\ op = "idle"
    /\ \E v \in JsonInputs :
        /\ op' = "isValidTree"
        /\ data' = v
        /\ valid' = isValidTree(v)
        /\ UNCHANGED <<builders, session, tree, treeStats, flat, lookup, foundNode, pathList,
                       filePaths, directoryPaths,
                       store0, store, given, made>>

\* getTreeStats(t)
GetTreeStats ==
    /\ op = "idle"
    /\ \E t \in Trees :
        /\ op' = "getTreeStats"
        /\ tree' = t
        /\ treeStats' = getTreeStats(t)
        /\ UNCHANGED <<builders, session, data, valid, flat, lookup, foundNode, pathList,
                       filePaths, directoryPaths,
                       store0, store, given, made>>

\* getTreeStats(fileTree) on the flat tree just built
GetTreeStatsOfFileTree ==
    /\ op = "createFileTree"
    /\ op' = "getTreeStats"
    /\ tree' = fileTree
    /\ treeStats' = getTreeStats(fileTree)
    /\ UNCHANGED <<builders, session, data, valid, flat, lookup, foundNode, pathList,
                       filePaths, directoryPaths,
                   store0, store, given, made>>

\* sortTree(t), t being in the store
StoreSortTree ==
    /\ op = "idle"
    /\ \E t \in Trees :
        LET before == Alloc(<<>>, t)
            after == storeSortTree(before.h, before.r)
        IN  /\ op' = "storeSortTree"
            /\ tree' = t
            /\ store0' = before.h
            /\ given' = before.r
            /\ store' = after.h
            /\ made' = after.r
            /\ UNCHANGED <<builders, session, data, valid, treeStats, flat, lookup,
                           foundNode, pathList, filePaths, directoryPaths>>

\* createTreeFromPaths(paths, defaultContent), defaultContent being in the
\* store when it is an object or an array
StoreCreateTreeFromPaths ==
    /\ op = "idle"
    /\ \E paths \in PathLists, defaultContent \in DefaultContents :
        LET before == Alloc(<<>>, defaultContent)
            after == storeCreateTreeFromPaths(before.h, paths, before.r)
        IN  /\ op' = "storeCreateTreeFromPaths"
            /\ pathList' = paths
            /\ store0' = before.h
            /\ given' = before.r
            /\ store' = after.h
            /\ made' = after.r
            /\ UNCHANGED <<builders, session, data, tree, valid, treeStats, flat, lookup,
                           foundNode, filePaths, directoryPaths>>

\* flattenTree(t)
FlattenTree ==
    /\ op = "idle"
    /\ \E t \in Trees :
        /\ op' = "flattenTree"
        /\ tree' = t
        /\ flat' = flattenTree(t, <<>>)
        /\ UNCHANGED <<builders, session, data, valid, treeStats, lookup, foundNode,
                       pathList, filePaths, directoryPaths, store0, store, given, made>>

\* findNodeByPath(t, p)
FindNodeByPath ==
    /\ op = "idle"
    /\ \E t \in LookupTrees, p \in LookupPaths :
        /\ op' = "findNodeByPath"
        /\ tree' = t
        /\ lookup' = p
        /\ foundNode' = findNodeByPath(t, p)
        /\ UNCHANGED <<builders, session, data, valid, treeStats, flat, pathList,
                       filePaths, directoryPaths, store0,
                       store, given, made>>

\* getFilePaths, getDirectoryPaths and getTreeStats of the tree just flattened
TreeQueries ==
    /\ op = "flattenTree"
    /\ op' = "treeQueries"
    /\ filePaths' = getFilePaths(tree, <<>>)
    /\ directoryPaths' = getDirectoryPaths(tree, <<>>)
    /\ treeStats' = getTreeStats(tree)
    /\ UNCHANGED <<builders, session, data, tree, valid, flat, lookup,
                   foundNode, pathList, store0, store, given, made>>

\* The call is over: its arguments and results are dropped.
Return ==
    /\ op # "idle"
    /\ op' = "idle"
    /\ data' = JsNull
    /\ fileTree' = EmptyObj
    /\ hierarchy' = NoList
    /\ files' = <<>>
    /\ preview' = Returned(EmptyObj)
    /\ fileStructure' = Returned(EmptyObj)
    /\ filename' = <<>>
    /\ sanitized' = <<>>
    /\ tree' = EmptyObj
    /\ rebuilt' = EmptyObj
    /\ sorted' = EmptyObj
    /\ resorted' = EmptyObj
    /\ valid' = FALSE
    /\ treeStats' = NoStats
    /\ flat' = <<>>
    /\ lookup' = <<>>
    /\ foundNode' = JsNull
    /\ pathList' = <<>>
    /\ filePaths' = <<>>
    /\ directoryPaths' = <<>>
    /\ store0' = <<>>
    /\ store' = <<>>
    /\ given' = JsNull
    /\ made' = JsNull
    /\ UNCHANGED session

Next ==
    \/ CreateFileTree
    \/ CreateHierarchicalTree
    \/ GenerateFileStructure
    \/ BuildFileTree
    \/ ParseJsonToFileStructure
    \/ SanitizeFilename
    \/ CreateTreeFromPaths
    \/ SortTree
    \/ IsValidTree
    \/ GetTreeStats
    \/ GetTreeStatsOfFileTree
    \/ StoreSortTree
    \/ StoreCreateTreeFromPaths
    \/ FlattenTree
    \/ FindNodeByPath
    \/ TreeQueries
    \/ Return

Spec == Init /\ [][Next]_vars

----------------------------------------------------------------------------
(* The components on a page: the events their handlers get *)

\* What is loaded now.
CurrentlyLoaded == Loaded(jsonInput, heldStructure, jsonData)

\* The page shows App.
MountApp ==
    /\ mounted = "none"
    /\ mounted' = "App"
    /\ UNCHANGED <<calls, jsonInput, heldStructure, jsonData, error,
                   isProcessing, isConverting, expandedFolders, reading,
                   archive, downloads, started, lastEvent, touched>>

\* The page shows FileConverter.
MountFileConverter ==
    /\ mounted = "none"
    /\ mounted' = "FileConverter"
    /\ UNCHANGED <<calls, jsonInput, heldStructure, jsonData, error,
                   isProcessing, isConverting, expandedFolders, reading,
                   archive, downloads, started, lastEvent, touched>>

\* App.handleJsonInput(value), the state it sets
handleJsonInput(value) ==
    LET structure == parseJsonTextToFileStructure(value)
    IN  /\ jsonInput' = value
        /\ error' = IF Trim(value) # <<>> /\ ~structure.ok
                    THEN InvalidJsonFormat ELSE ""
        /\ heldStructure' = IF Trim(value) # <<>> /\ structure.ok
                            THEN structure.v ELSE JsNull
        /\ lastEvent' = InputEvent(value)
        /\ touched' = (touched \/ archive = "pending")

\* App: the text of the input field is changed to value.
AppChangeText ==
    /\ mounted = "App"
    /\ \E value \in SessionTexts \ {jsonInput} :
        /\ handleJsonInput(value)
        /\ UNCHANGED <<calls, mounted, jsonData, isProcessing, isConverting,
                       expandedFolders, reading, archive, downloads, started>>

\* App.handleFileUpload(event): a JSON file starts being read, any other is
\* passed over.
AppHandleFileUpload ==
    /\ mounted = "App"
    /\ Cardinality(reading) < MaxReads
    /\ \E file \in UploadedFiles :
        /\ reading' = IF file.present /\ file.type = JsonFileType
                      THEN reading \cup {file.text} ELSE reading
        /\ UNCHANGED <<calls, mounted, jsonInput, heldStructure, jsonData,
                       error, isProcessing, isConverting, expandedFolders,
                       archive, downloads, started, lastEvent, touched>>

\* App: reader.onload of a file being read
AppReaderOnload ==
    /\ mounted = "App"
    /\ \E text \in reading :
        /\ reading' = reading \ {text}
        /\ handleJsonInput(text)
        /\ UNCHANGED <<calls, mounted, jsonData, isProcessing, isConverting,
                       expandedFolders, archive, downloads, started>>

\* App.toggleFolder(path) of a folder drawn
AppToggleFolder ==
    /\ mounted = "App"
    /\ heldStructure # JsNull
    /\ \E path \in appFoldersFrom(heldStructure.e, 1, expandedFolders) :
        /\ expandedFolders' = toggled(expandedFolders, path)
        /\ UNCHANGED <<calls, mounted, jsonInput, heldStructure, jsonData,
                       error, isProcessing, isConverting, reading, archive,
                       downloads, started, lastEvent, touched>>

\* App.clearAll(), whose button is there while jsonInput is not empty
AppClearAll ==
    /\ mounted = "App"
    /\ jsonInput # <<>>
    /\ jsonInput' = <<>>
    /\ heldStructure' = JsNull
    /\ error' = ""
    /\ expandedFolders' = {}
    /\ lastEvent' = ClearEvent
    /\ touched' = (touched \/ archive = "pending")
    /\ UNCHANGED <<calls, mounted, jsonData, isProcessing, isConverting,
                   reading, archive, downloads, started>>

\* App.generateZip() up to its first await; its button is there while
\* fileStructure is not null and is disabled while isProcessing.
AppGenerateZip ==
    /\ mounted = "App"
    /\ heldStructure # JsNull
    /\ ~isProcessing
    /\ downloads < MaxDownloads
    /\ isProcessing' = TRUE
    /\ archive' = "pending"
    /\ started' = CurrentlyLoaded
    /\ touched' = FALSE
    /\ UNCHANGED <<calls, mounted, jsonInput, heldStructure, jsonData, error,
                   isConverting, expandedFolders, reading, downloads,
                   lastEvent>>

\* App.generateZip(): the archive was made, a.click(), finally
AppZipDone ==
    /\ mounted = "App"
    /\ archive = "pending"
    /\ archive' = "done"
    /\ downloads' = downloads + 1
    /\ isProcessing' = FALSE
    /\ UNCHANGED <<calls, mounted, jsonInput, heldStructure, jsonData, error,
                   isConverting, expandedFolders, reading, started, lastEvent,
                   touched>>

\* App.generateZip() without its finally block
AppZipFailedStaysBusy ==
    /\ mounted = "App"
    /\ archive = "pending"
    /\ archive' = "failed"
    /\ error' = FailedToGenerateZip
    /\ UNCHANGED <<calls, mounted, jsonInput, heldStructure, jsonData,
                   isProcessing, isConverting, expandedFolders, reading,
                   downloads, started, lastEvent, touched>>

\* App.generateZip(): the import or the archive threw, catch, finally
AppZipFailed ==
    /\ mounted = "App"
    /\ archive = "pending"
    /\ archive' = "failed"
    /\ error' = FailedToGenerateZip
    /\ isProcessing' = FALSE
    /\ UNCHANGED <<calls, mounted, jsonInput, heldStructure, jsonData,
                   isConverting, expandedFolders, reading, downloads, started,
                   lastEvent, touched>>

\* FileConverter.handleFileUpload(event): no file, a file of another type,
\* or a JSON file that starts being read
ConverterHandleFileUpload ==
    /\ mounted = "FileConverter"
    /\ Cardinality(reading) < MaxReads
    /\ \E file \in UploadedFiles :
        /\ error' = IF file.present /\ file.type # JsonFileType
                    THEN SelectValidJsonFile ELSE error
        /\ reading' = IF file.present /\ file.type = JsonFileType
                      THEN reading \cup {file.text} ELSE reading
        /\ UNCHANGED <<calls, mounted, jsonInput, heldStructure, jsonData,
                       isProcessing, isConverting, expandedFolders, archive,
                       downloads, started, lastEvent, touched>>

\* FileConverter: reader.onload of a file being read
ConverterReaderOnload ==
    /\ mounted = "FileConverter"
    /\ \E text \in reading :
        LET parsedData == JsonParse(text)
        IN  /\ reading' = reading \ {text}
            /\ jsonData' = IF parsedData.ok THEN parsedData.v ELSE JsNull
            /\ error' = IF parsedData.ok THEN "" ELSE InvalidJsonFormat
            /\ lastEvent' = InputEvent(text)
            /\ touched' = (touched \/ archive = "pending")
            /\ UNCHANGED <<calls, mounted, jsonInput, heldStructure,
                           isProcessing, isConverting, expandedFolders,
                           archive, downloads, started>>

\* FileConverter.toggleFolder(path) of a folder drawn
ConverterToggleFolder ==
    /\ mounted = "FileConverter"
    /\ derivedFileTree(jsonData).ok
    /\ \E path \in converterFoldersFrom(derivedFileTree(jsonData).v.e, 1, <<>>,
                                        expandedFolders) :
        /\ expandedFolders' = toggled(expandedFolders, path)
        /\ UNCHANGED <<calls, mounted, jsonInput, heldStructure, jsonData,
                       error, isProcessing, isConverting, reading, archive,
                       downloads, started, lastEvent, touched>>

\* FileConverter.handleConvert() up to its first await; its button is
\* disabled while !jsonData || isConverting.
ConverterHandleConvert ==
    /\ mounted = "FileConverter"
    /\ ~Falsy(jsonData)
    /\ ~isConverting
    /\ downloads < MaxDownloads
    /\ isConverting' = TRUE
    /\ archive' = "pending"
    /\ started' = CurrentlyLoaded
    /\ touched' = FALSE
    /\ UNCHANGED <<calls, mounted, jsonInput, heldStructure, jsonData, error,
                   isProcessing, expandedFolders, reading, downloads,
                   lastEvent>>

\* FileConverter.handleConvert(): the archive was made, a.click(), finally
ConverterZipDone ==
    /\ mounted = "FileConverter"
    /\ archive = "pending"
    /\ archive' = "done"
    /\ downloads' = downloads + 1
    /\ isConverting' = FALSE
    /\ UNCHANGED <<calls, mounted, jsonInput, heldStructure, jsonData, error,
                   isProcessing, expandedFolders, reading, started, lastEvent,
                   touched>>

\* FileConverter.handleConvert(): createZipFile threw, catch, finally
ConverterZipFailed ==
    /\ mounted = "FileConverter"
    /\ archive = "pending"
    /\ archive' = "failed"
    /\ error' = FailedToCreateZip
    /\ isConverting' = FALSE
    /\ UNCHANGED <<calls, mounted, jsonInput, heldStructure, jsonData,
                   isProcessing, expandedFolders, reading, downloads, started,
                   lastEvent, touched>>

SessionNext ==
    \/ MountApp
    \/ MountFileConverter
    \/ AppChangeText
    \/ AppHandleFileUpload
    \/ AppReaderOnload
    \/ AppToggleFolder
    \/ AppClearAll
    \/ AppGenerateZip
    \/ AppZipDone
    \/ AppZipFailed
    \/ ConverterHandleFileUpload
    \/ ConverterReaderOnload
    \/ ConverterToggleFolder
    \/ ConverterHandleConvert
    \/ ConverterZipDone
    \/ ConverterZipFailed

\* The components alone, the events coming in any order.
SessionSpec == Init /\ [][SessionNext]_vars

----------------------------------------------------------------------------

(* What the claims speak of *)

RECURSIVE LeafCount(_)
RECURSIVE LeafCountFrom(_, _)
LeafCountFrom(entries, i) ==
    IF i > Len(entries) THEN 0
    ELSE LeafCount(entries[i].v) + LeafCountFrom(entries, i + 1)
\* The number of scalar leaves of a JSON value.
LeafCount(v) == IF IsObject(v) THEN LeafCountFrom(v.e, 1) ELSE 1

NoDuplicates(list) ==
    \A i, j \in 1..Len(list) : i # j => list[i] # list[j]
Range(list) == {list[i] : i \in 1..Len(list)}
PathsOf(fs) == [i \in 1..Len(fs) |-> fs[i].path]
StartsWithSlash(path) == path # <<>> /\ path[1] = "/"

RECURSIVE NoEmptyKey(_)
\* No object in v has the key ''.
NoEmptyKey(v) ==
    \A i \in 1..Len(v.e) :
        /\ (v.t = "obj" => v.e[i].k # <<>>)
        /\ NoEmptyKey(v.e[i].v)

RECURSIVE LeafPaths(_, _, _, _, _)
RECURSIVE LeafPathsFrom(_, _, _, _, _)
\* The paths the naming rules give the scalar leaves of v: the names from the
\* root down ('item_<index>' in an array, the key, sanitized or not, in an
\* object), joined by '/', and the extension.
LeafPathsFrom(v, i, chain, clean, objExt) ==
    IF i > Len(v.e) THEN <<>>
    ELSE LET name == IF v.t = "arr" THEN ItemPrefix \o ToDigits(i - 1)
                     ELSE IF clean THEN sanitizeFilename(v.e[i].k)
                     ELSE v.e[i].k
         IN  LeafPaths(v.e[i].v, Append(chain, name), clean, objExt,
                       IF v.t = "arr" THEN DotTxt ELSE objExt)
             \o LeafPathsFrom(v, i + 1, chain, clean, objExt)
LeafPaths(v, chain, clean, objExt, ext) ==
    IF IsObject(v) THEN LeafPathsFrom(v, 1, chain, clean, objExt)
    ELSE <<Join(chain, <<"/">>) \o ext>>

----------------------------------------------------------------------------
(* C1 *)

\* C1: for every JSON object or array, every scalar leaf gets a path of its
\* own: createFileTree holds as many paths as the value has leaves (none was
\* overwritten) and the list generateFileStructure hands to the archiver has
\* no duplicate path.
C1_EveryLeafOwnPath ==
    /\ (op = "createFileTree" /\ IsObject(data))
           => Len(fileTree.e) = LeafCount(data)
    /\ (op = "generateFileStructure" /\ IsObject(data))
           => NoDuplicates(PathsOf(files))

----------------------------------------------------------------------------
(* C2 *)

\* C2: building the tree, and the display hierarchy derived from it, never
\* throws on a JSON value.
C2_BuilderNeverFails ==
    /\ op = "createHierarchicalTree" => hierarchy.ok
    /\ op = "buildFileTree" => preview.ok
    /\ op = "parseJsonToFileStructure" => fileStructure.ok

----------------------------------------------------------------------------
(* C3 *)

\* C3: every path the builders produce for an object or array (no key of
\* which is empty) is the '/'-joined sequence of the names from the root down
\* to the node, and none starts with '/'.
C3_PathsAreJoinedNames ==
    /\ (op = "createFileTree" /\ IsObject(data) /\ NoEmptyKey(data)) =>
           /\ Range(Keys(fileTree.e))
                  = Range(LeafPaths(data, <<>>, TRUE, DotTxt, DotTxt))
           /\ \A path \in Range(Keys(fileTree.e)) : ~StartsWithSlash(path)
    /\ (op = "generateFileStructure" /\ IsObject(data) /\ NoEmptyKey(data)) =>
           /\ Range(PathsOf(files))
                  = Range(LeafPaths(data, <<>>, FALSE, DotJson, DotJson))
           /\ \A path \in Range(PathsOf(files)) : ~StartsWithSlash(path)

----------------------------------------------------------------------------
(* C4 *)

Item(i) == ItemPrefix \o ToDigits(i)
IsFileNode(node) == Get(node.e, TypeKey) = FileType
IsFolderNode(node) == Get(node.e, TypeKey) = FolderType
ChildrenOf(node) == Get(node.e, ChildrenKey)

\* C4: the tree built from a root array of scalars and objects (each holding
\* a value) has, at its
\* top level and in array order, a file item_<i>.txt for each scalar element
\* and a directory item_<i> for each object element; for [1, 2, {"x": 3}] that
\* is item_0.txt, item_1.txt and item_2 holding the file x.json, 3 files and
\* 1 directory.
C4_RootArrayTree ==
    (/\ op = "buildFileTree"
     /\ data.t = "arr"
     /\ \A i \in 1..Len(data.e) :
            data.e[i].v.t # "arr" /\ LeafCount(data.e[i].v) > 0) =>
        /\ preview.ok
        /\ Keys(preview.v.e)
               = [i \in 1..Len(data.e) |->
                     IF IsObject(data.e[i].v) THEN Item(i - 1)
                     ELSE Item(i - 1) \o DotTxt]
        /\ data = ArrayScenario =>
               /\ IsFileNode(Get(preview.v.e, Item(0) \o DotTxt))
               /\ IsFileNode(Get(preview.v.e, Item(1) \o DotTxt))
               /\ IsFolderNode(Get(preview.v.e, Item(2)))
               /\ Keys(ChildrenOf(Get(preview.v.e, Item(2))).e)
                      = << <<"x">> \o DotJson >>
               /\ countTreeFiles(createTreeFromPaths(PathsOf(files), JsStr(<<>>))) = 3
               /\ countTreeDirectories(
                      createTreeFromPaths(PathsOf(files), JsStr(<<>>))) = 1

----------------------------------------------------------------------------
(* C5 *)

NameJson == <<"n", "a", "m", "e">> \o DotJson
AgeJson == <<"a", "g", "e">> \o DotJson
NameTxt == <<"n", "a", "m", "e">> \o DotTxt
AgeTxt == <<"a", "g", "e">> \o DotTxt
Alice == <<"A", "l", "i", "c", "e">>
AliceQuoted == <<"\"", "A", "l", "i", "c", "e", "\"">>
Thirty == <<"3", "0">>

\* The JSON text of a scalar whose string needs no escape.
ScalarJsonText(v) == IF v.t = "str" THEN <<"\"">> \o v.s \o <<"\"">> ELSE v.s
ContentOf(node) == Get(node.e, ContentKey).s
HasSlash(key) == \E i \in 1..Len(key) : key[i] = "/"
\* An object all of whose values are scalars and none of whose keys has a '/'.
FlatObject(v) ==
    /\ v.t = "obj"
    /\ \A i \in 1..Len(v.e) : ~IsObject(v.e[i].v) /\ ~HasSlash(v.e[i].k)
TreeOfFiles == createTreeFromPaths(PathsOf(files), JsStr(<<>>))

\* C5 as stated: every builder maps {"name": "Alice", "age": 30} to the two
\* files name.json, holding "Alice" with its quotes, and age.json, holding 30.
C5_EveryBuilderNameJson ==
    data = ObjectScenario =>
        /\ op = "buildFileTree" =>
               /\ preview.ok
               /\ Keys(preview.v.e) = <<NameJson, AgeJson>>
               /\ ContentOf(Get(preview.v.e, NameJson)) = AliceQuoted
               /\ ContentOf(Get(preview.v.e, AgeJson)) = Thirty
        /\ op = "createFileTree" =>
               fileTree = JsObj(<<Entry(NameJson, JsStr(AliceQuoted)),
                                  Entry(AgeJson, JsStr(Thirty))>>)
        /\ op = "parseJsonToFileStructure" =>
               /\ fileStructure.ok
               /\ Keys(fileStructure.v.e) = <<NameJson, AgeJson>>
               /\ ContentOf(Get(fileStructure.v.e, NameJson)) = AliceQuoted
               /\ ContentOf(Get(fileStructure.v.e, AgeJson)) = Thirty

\* C5 as amended: the tree FileConverter builds (generateFileStructure, then
\* buildFileTree) from an object of short scalars with no '/' in a key has
\* one file <key>.json per member, in order, holding the value's JSON text,
\* and no directory (depth 0); for {"name": "Alice", "age": 30} these are
\* name.json holding "Alice" with its quotes and age.json holding 30.
\* createFileTree gives name.txt holding Alice and age.txt holding 30;
\* parseJsonToFileStructure gives name.json holding Alice without quotes and
\* age.json holding 30.
C5_FileConverterNameJson ==
    /\ (op = "buildFileTree" /\ FlatObject(data)) =>
           /\ files = [i \in 1..Len(data.e) |->
                          FileEntry(data.e[i].k \o DotJson,
                                    ScalarJsonText(data.e[i].v))]
           /\ preview.ok
           /\ Keys(preview.v.e) = PathsOf(files)
           /\ \A i \in 1..Len(files) :
                  /\ IsFileNode(Get(preview.v.e, files[i].path))
                  /\ ContentOf(Get(preview.v.e, files[i].path))
                         = files[i].content
           /\ countTreeFiles(TreeOfFiles) = Len(data.e)
           /\ countTreeDirectories(TreeOfFiles) = 0
           /\ getTreeDepth(TreeOfFiles) = 0
    /\ (op = "buildFileTree" /\ data = ObjectScenario) =>
           /\ Keys(preview.v.e) = <<NameJson, AgeJson>>
           /\ ContentOf(Get(preview.v.e, NameJson)) = AliceQuoted
           /\ ContentOf(Get(preview.v.e, AgeJson)) = Thirty
    /\ (op = "createFileTree" /\ data = ObjectScenario) =>
           fileTree = JsObj(<<Entry(NameTxt, JsStr(Alice)),
                              Entry(AgeTxt, JsStr(Thirty))>>)
    /\ (op = "parseJsonToFileStructure" /\ data = ObjectScenario) =>
           /\ fileStructure.ok
           /\ Keys(fileStructure.v.e) = <<NameJson, AgeJson>>
           /\ IsFileNode(Get(fileStructure.v.e, NameJson))
           /\ ContentOf(Get(fileStructure.v.e, NameJson)) = Alice
           /\ ContentOf(Get(fileStructure.v.e, AgeJson)) = Thirty

\* The tree of {"name": "Alice", "age": 30} has been built.
C5_Witness ==
    /\ op = "buildFileTree"
    /\ data = ObjectScenario
    /\ preview.ok
    /\ Len(preview.v.e) = 2

----------------------------------------------------------------------------
(* C6 *)

DataTxt == <<"d", "a", "t", "a">> \o DotTxt
DataJson == <<"d", "a", "t", "a">> \o DotJson
Hello == <<"h", "e", "l", "l", "o">>

\* C6 as stated: a scalar at the root becomes the single file data.json
\* holding the value's JSON text ("hello" with its quotes).
C6_RootScalarDataJson ==
    /\ (op = "createFileTree" /\ ~IsObject(data)) =>
           fileTree = JsObj(<<Entry(DataJson, JsStr(ScalarJsonText(data)))>>)
    /\ (op = "generateFileStructure" /\ ~IsObject(data)) =>
           files = <<FileEntry(DataJson, ScalarJsonText(data))>>

\* C6 as amended: a scalar at the root becomes the single file data.txt
\* holding String(value): hello, without quotes, for "hello".
C6_RootScalarDataTxt ==
    /\ (op = "createFileTree" /\ ~IsObject(data)) =>
           /\ fileTree = JsObj(<<Entry(DataTxt, JsStr(data.s))>>)
           /\ data = ScalarScenario =>
                  fileTree = JsObj(<<Entry(DataTxt, JsStr(Hello))>>)
    /\ (op = "generateFileStructure" /\ ~IsObject(data)) =>
           /\ files = <<FileEntry(DataTxt, data.s)>>
           /\ data = ScalarScenario => files = <<FileEntry(DataTxt, Hello)>>

\* "hello" has been given to createFileTree.
C6_Witness ==
    /\ op = "createFileTree"
    /\ data = ScalarScenario
    /\ Len(fileTree.e) = 1

----------------------------------------------------------------------------
(* C7 *)

RECURSIVE Squeezed(_)
\* s with every '_' that follows a '_' dropped.
Squeezed(s) ==
    IF Len(s) < 2 THEN s
    ELSE IF s[1] = "_" /\ s[2] = "_" THEN Squeezed(Tail(s))
    ELSE <<s[1]>> \o Squeezed(Tail(s))

\* The name the rules of C7 give: the key without its leading and trailing
\* whitespace, each forbidden character and each whitespace character as '_',
\* runs of '_' as one.
RuleName(key) ==
    LET trimmed == Trim(key)
    IN  Squeezed([i \in 1..Len(trimmed) |->
                     IF trimmed[i] \in ForbiddenChars \/ IsSpace(trimmed[i])
                     THEN "_" ELSE trimmed[i]])

MyKeyName == <<"m", "y", ":", "k", "e", "y", " ", "n", "a", "m", "e">>
MyKeyNameClean == <<"m", "y", "_", "k", "e", "y", "_", "n", "a", "m", "e">>

\* C7: sanitizeFilename gives the key with its leading and trailing whitespace
\* trimmed, forbidden characters and whitespace runs as '_' and runs of '_'
\* collapsed; the result has no forbidden character, no whitespace and no two
\* adjacent '_', and "my:key name" gives "my_key_name".
C7_SanitizeRules ==
    op = "sanitizeFilename" =>
        /\ \A i \in 1..Len(sanitized) :
               /\ sanitized[i] \notin ForbiddenChars
               /\ ~IsSpace(sanitized[i])
               /\ i > 1 => ~(sanitized[i - 1] = "_" /\ sanitized[i] = "_")
        /\ filename = MyKeyName => sanitized = MyKeyNameClean
        /\ sanitized = RuleName(filename)

----------------------------------------------------------------------------
(* C8 *)

RECURSIVE CleanNames(_)
\* Every name in the tree is non-empty and has no '/'.
CleanNames(t) ==
    \A i \in 1..Len(t.e) :
        /\ t.e[i].k # <<>>
        /\ ~HasSlash(t.e[i].k)
        /\ IsPlainObject(t.e[i].v) => CleanNames(t.e[i].v)

----------------------------------------------------------------------------
(* C9 *)

\* C9: sortTree(sortTree(t)) = sortTree(t), the order of the members at
\* every level included.
C9_SortTreeIdempotent == op = "sortTree" => resorted = sorted

\* A tree that sortTree reorders, with a directory of two members, has been
\* sorted.
C9_Witness ==
    /\ op = "sortTree"
    /\ sorted # tree
    /\ resorted = sorted
    /\ \E i \in 1..Len(tree.e) :
           IsPlainObject(tree.e[i].v) /\ Len(tree.e[i].v.e) = 2

----------------------------------------------------------------------------
(* C10 *)

RECURSIVE DirectoriesFirstAscending(_)
\* In t, at every level: no file before a directory, and the names of the
\* directories, and of the files, ascending.
DirectoriesFirstAscending(t) ==
    /\ \A i, j \in 1..Len(t.e) :
           i < j =>
               /\ IsPlainObject(t.e[j].v) => IsPlainObject(t.e[i].v)
               /\ IsPlainObject(t.e[i].v) = IsPlainObject(t.e[j].v)
                      => StrLess(t.e[i].k, t.e[j].k)
    /\ \A i \in 1..Len(t.e) :
           IsPlainObject(t.e[i].v) => DirectoriesFirstAscending(t.e[i].v)

\* C10: in sortTree(t), for a tree t of non-empty names without '/', at
\* every level the directories come before the files and each group is in
\* ascending lexicographic order of name.
C10_DirectoriesFirstAscending ==
    (op = "sortTree" /\ CleanNames(tree)) => DirectoriesFirstAscending(sorted)

----------------------------------------------------------------------------
(* C11 *)

RECURSIVE ValidShape(_)
\* A non-array object whose every value is a valid tree in turn or a leaf
\* that is no object.
ValidShape(v) ==
    /\ v.t = "obj"
    /\ \A i \in 1..Len(v.e) : ValidShape(v.e[i].v) \/ ~IsObject(v.e[i].v)

\* C11, as stated: isValidTree(value) is true if and only if value is a
\* non-array object whose every value is a nested valid tree or a non-object
\* leaf; so it is false when a nested value is an array.
C11_ValidTreeShape ==
    op = "isValidTree" => (valid = ValidShape(data))

\* C11, amended: isValidTree(value) is true if and only if value itself is a
\* non-array object (not null); no nested value makes it false, a nested
\* array or null counts as a file. It is false for every array, primitive and
\* null at top level and true for {}.
C11_ValidTreeAnyObject ==
    op = "isValidTree" => (valid = (data.t = "obj"))

\* isValidTree accepted an object that has an array among its values.
C11_Witness ==
    /\ op = "isValidTree"
    /\ valid
    /\ \E i \in 1..Len(data.e) : data.e[i].v.t = "arr"

----------------------------------------------------------------------------
(* C12 *)

\* C12: for every tree, the tree built from a JSON object or array included,
\* stats(tree).totalNodes is stats(tree).files + stats(tree).directories,
\* which is countFiles(tree) + countDirectories(tree).
C12_TotalNodesIsFilesPlusDirectories ==
    op = "getTreeStats" =>
        /\ treeStats.totalNodes = treeStats.files + treeStats.directories
        /\ treeStats.files = countTreeFiles(tree)
        /\ treeStats.directories = countTreeDirectories(tree)
        /\ treeStats.totalNodes
               = countTreeFiles(tree) + countTreeDirectories(tree)

\* The statistics of a tree that has files and directories.
C12_Witness ==
    /\ op = "getTreeStats"
    /\ treeStats.files > 0
    /\ treeStats.directories > 0

----------------------------------------------------------------------------
(* C13 *)

Max(S) == CHOOSE m \in S : \A n \in S : m >= n

RECURSIVE DepthOf(_)
\* 0 without a directory child, else 1 + the largest depth of a directory child.
DepthOf(t) ==
    LET dirs == {i \in 1..Len(t.e) : IsPlainObject(t.e[i].v)}
    IN  IF dirs = {} THEN 0
        ELSE 1 + Max({DepthOf(t.e[i].v) : i \in dirs})

\* {"a": {}}
OneDirectory == JsObj(Members(<<<< <<"a">>, EmptyObj >>>>))

\* C13: depth(tree) is 0 for a tree that contains no directory and otherwise
\* 1 + the maximum depth over its directory children; depth({}) is 0,
\* depth({a: {}}) is 1 and depth({a: {b: {c: 1}}}) is 2.
C13_DepthOverDirectories ==
    op = "getTreeStats" =>
        /\ treeStats.depth = DepthOf(tree)
        /\ tree = EmptyObj => treeStats.depth = 0
        /\ tree = OneDirectory => treeStats.depth = 1
        /\ tree = DepthScenario => treeStats.depth = 2

\* The depth of {a: {b: {c: 1}}} has been computed.
C13_Witness ==
    /\ op = "getTreeStats"
    /\ tree = DepthScenario
    /\ treeStats.depth = 2

----------------------------------------------------------------------------
(* C14 *)

\* C14: no tree operation mutates its argument, and sortTree returns a new
\* structure. Of the operations, only sortTree and createTreeFromPaths assign
\* to a property of an object at all (flattenTree, getFilePaths,
\* getDirectoryPaths, findNodeByPath, getTreeDepth, the counts, getTreeStats
\* and isValidTree only read their argument): after either, every object
\* that was there at the call is as it was, and what sortTree returns for a
\* tree is an object that was not there before.
C14_NoArgumentMutated ==
    op \in {"storeSortTree", "storeCreateTreeFromPaths"} =>
        /\ Len(store) >= Len(store0)
        /\ \A a \in 1..Len(store0) : store[a] = store0[a]
        /\ op = "storeSortTree" => IsRef(made) /\ Addr(made) > Len(store0)

----------------------------------------------------------------------------
(* C15 *)

RECURSIVE PositionsOf(_)
\* The nodes of a tree, each as the chain of member numbers that leads to it.
PositionsOf(t) ==
    UNION {{<<i>>} \cup (IF IsPlainObject(t.e[i].v)
                         THEN {<<i>> \o c : c \in PositionsOf(t.e[i].v)}
                         ELSE {})
           : i \in 1..Len(t.e)}

RECURSIVE MemberAt(_, _)
\* The member [k, v] the chain leads to.
MemberAt(t, chain) ==
    IF Len(chain) = 1 THEN t.e[chain[1]]
    ELSE MemberAt(t.e[chain[1]].v, Tail(chain))

\* c comes before d depth first: c is an ancestor of d, or at the first
\* place they part c takes the earlier sibling.
ComesBefore(c, d) ==
    LET n == IF Len(c) < Len(d) THEN Len(c) ELSE Len(d)
        apart == {i \in 1..n : c[i] # d[i]}
    IN  IF apart = {} THEN Len(c) < Len(d)
        ELSE c[Min(apart)] < d[Min(apart)]

\* The place of the node in the depth-first order.
PlaceOf(t, chain) ==
    1 + Cardinality({c \in PositionsOf(t) : ComesBefore(c, chain)})

\* C15: flatten(tree) lists every node exactly once in depth-first order,
\* each directory entry immediately before the entries of its own subtree and
\* siblings in the tree's sibling order; a directory entry carries the number
\* of its direct children and a file entry carries the file's content.
C15_FlattenDepthFirst ==
    op = "flattenTree" =>
        /\ Len(flat) = Cardinality(PositionsOf(tree))
        /\ \A chain \in PositionsOf(tree) :
            LET member == MemberAt(tree, chain)
                listed == flat[PlaceOf(tree, chain)].e
            IN  /\ Get(listed, NameKey) = JsStr(member.k)
                /\ IF IsPlainObject(member.v)
                   THEN /\ Get(listed, TypeKey) = DirectoryType
                        /\ Get(listed, ChildrenKey)
                               = JsNum(ToDigits(Len(member.v.e)))
                        /\ ~Has(listed, ContentKey)
                   ELSE /\ Get(listed, TypeKey) = FileType
                        /\ Get(listed, ContentKey) = member.v
                        /\ ~Has(listed, ChildrenKey)

\* A directory with one file in it and a file after it have been listed:
\* directory, its file, the other file.
C15_Witness ==
    /\ op = "flattenTree"
    /\ Len(flat) = 3
    /\ Get(flat[1].e, TypeKey) = DirectoryType
    /\ Get(flat[1].e, ChildrenKey) = JsNum(<<"1">>)
    /\ Get(flat[2].e, TypeKey) = FileType
    /\ Get(flat[3].e, TypeKey) = FileType
    /\ Len(tree.e) = 2

----------------------------------------------------------------------------
(* C16 *)

RECURSIVE ChildByChild(_, _, _)
\* The node reached from current by the segments from segment i on, each a
\* child of the node before; null when a segment is absent at its level,
\* which it is in a file.
ChildByChild(current, segments, i) ==
    IF i > Len(segments) THEN current
    ELSE IF ~IsPlainObject(current) \/ ~Has(current.e, segments[i]) THEN JsNull
    ELSE ChildByChild(Get(current.e, segments[i]), segments, i + 1)

\* C16: findByPath(tree, path) never raises; it returns null for an empty
\* path and whenever some non-empty segment of the path is absent at its
\* level (also when the walk reaches a file before the path is exhausted),
\* and otherwise the node reached by walking the non-empty '/'-separated
\* segments child by child.
C16_FindChildByChild ==
    op = "findNodeByPath" =>
        foundNode = IF lookup = <<>> THEN JsNull
                    ELSE ChildByChild(tree, NonEmptyParts(Split(lookup, "/")), 1)

----------------------------------------------------------------------------
(* C17 *)

\* A non-empty string.
IsPathEntry(p) == p.t = "str" /\ p.s # <<>>
SegmentsOf(p) == NonEmptyParts(Split(p.s, "/"))
Missing == [t |-> "undefined", s |-> <<>>, e |-> <<>>]

RECURSIVE NodeIn(_, _, _, _)
\* What the first n segments lead to from r in the store h.
NodeIn(h, r, segments, n) ==
    IF n = 0 THEN r
    ELSE LET parent == NodeIn(h, r, segments, n - 1)
         IN  IF IsRef(parent) /\ Has(h[Addr(parent)].e, segments[n])
             THEN Get(h[Addr(parent)].e, segments[n])
             ELSE Missing

\* C17: treeFromPaths never reports a conflict: entries that are not
\* non-empty strings are skipped without effect, every intermediate segment
\* becomes a directory and the last segment a file holding defaultContent,
\* and a segment that exists as a file and is later addressed as a directory
\* is overwritten by a directory (last write wins in list order). So the
\* result is that for the list without the skipped entries, and the last
\* path of the list leads through directories, none of them the content
\* of a file of an earlier path, to defaultContent.
C17_LastWriteWins ==
    op = "storeCreateTreeFromPaths" =>
        /\ [h |-> store, r |-> made]
               = storeCreateTreeFromPaths(store0,
                     SelectSeq(pathList, IsPathEntry), given)
        /\ LET written == SelectSeq(pathList,
                              LAMBDA p : IsPathEntry(p) /\ SegmentsOf(p) # <<>>)
           IN  written # <<>> =>
                   LET segments == SegmentsOf(written[Len(written)])
                   IN  /\ NodeIn(store, made, segments, Len(segments)) = given
                       /\ \A n \in 1..(Len(segments) - 1) :
                           LET node == NodeIn(store, made, segments, n)
                           IN  IsPlainObjectIn(store, node) /\ node # given

----------------------------------------------------------------------------
(* C18 *)

\* A handler gets an input text: App.handleJsonInput from the input field
\* or from a file read, FileConverter's reader.onload.
InputHandled == AppChangeText \/ AppReaderOnload \/ ConverterReaderOnload
\* The text is JSON.
WellFormed(text) == JsonParse(text).ok

\* C18: when a handler gets a text that is not blank, then if the text does
\* not parse as JSON the error 'Invalid JSON format' is shown and the tree
\* held before is either kept or dropped, nothing being built from the
\* text; and if the text is JSON, 'Invalid JSON format' is not shown.
C18_InvalidInputReported ==
    [][InputHandled /\ Trim(lastEvent'.text) # <<>> =>
          IF WellFormed(lastEvent'.text)
          THEN error' # InvalidJsonFormat
          ELSE /\ error' = InvalidJsonFormat
               /\ heldStructure' \in {heldStructure, JsNull}
               /\ jsonData' \in {jsonData, JsNull}]_vars

----------------------------------------------------------------------------
(* C19 *)

\* The archive step of the pending conversion fails.
ArchiveFails == archive = "pending" /\ archive' = "failed"
ArchiveFailureShown == error \in {FailedToGenerateZip, FailedToCreateZip}
Busy == isProcessing \/ isConverting

\* C19 (as stated): when the archive step fails, the failure is shown, no
\* download is triggered, the busy flag is false again, and what is loaded
\* is what was loaded when the conversion started, whatever events came in
\* between.
C19_FailureLeavesWhatWasLoadedAtStart ==
    [][ArchiveFails =>
          /\ ArchiveFailureShown'
          /\ downloads' = downloads
          /\ ~Busy'
          /\ CurrentlyLoaded' = started]_vars

\* C19 (amended): when the archive step fails, the failure is shown, no
\* download is triggered, the busy flag is false again, and the failing
\* conversion changes nothing of what is loaded: it is what the events that
\* came in between made it, and what was loaded when the conversion started
\* if none came.
C19_FailureChangesNothingLoaded ==
    [][ArchiveFails =>
          /\ ArchiveFailureShown'
          /\ downloads' = downloads
          /\ ~Busy'
          /\ CurrentlyLoaded' = CurrentlyLoaded
          /\ (~touched => CurrentlyLoaded' = started)]_vars

\* An archive step failed after an input came while it was pending: the
\* failure is shown and what is loaded is not what the conversion started
\* with.
C19_Witness ==
    /\ archive = "failed"
    /\ touched
    /\ ArchiveFailureShown
    /\ ~Busy
    /\ CurrentlyLoaded # started
    /\ started # NothingLoaded

----------------------------------------------------------------------------
(* C20 *)

\* The last event supplied a text that is not blank.
TextSupplied == lastEvent.event = "input" /\ Trim(lastEvent.text) # <<>>
\* The value of the text last supplied, when it is JSON.
LastJson == JsonParse(lastEvent.text).v

\* App holds the structure built from the JSON text last supplied, if one
\* can be built from it, and none after a clear or a blank text.
AppHoldsTreeOfLastInput ==
    IF TextSupplied
    THEN WellFormed(lastEvent.text) /\ parseJsonToFileStructure(LastJson).ok
            => heldStructure = parseJsonToFileStructure(LastJson).v
    ELSE heldStructure = JsNull

\* FileConverter shows the tree built from the files of the JSON text last
\* supplied, and the empty tree when none was or it was blank.
ConverterHoldsTreeOfLastInput ==
    IF TextSupplied
    THEN WellFormed(lastEvent.text)
            => derivedFileTree(jsonData)
                 = buildFileTree(generateFileStructure(LastJson, <<>>))
    ELSE derivedFileTree(jsonData) = Returned(EmptyObj)

\* C20: whatever events came, the tree the session holds is the tree built
\* from the JSON input last supplied and from nothing else, and no tree is
\* held after a clear or after a blank input.
C20_TreeOfLastInputAlone ==
    /\ mounted = "App" => AppHoldsTreeOfLastInput
    /\ mounted = "FileConverter" => ConverterHoldsTreeOfLastInput

----------------------------------------------------------------------------
(* C21 *)

RECURSIVE EmptyObjectChains(_)
\* The chains of keys that lead, object by object, from v to a value {}.
EmptyObjectChains(v) ==
    IF v.t # "obj" THEN {}
    ELSE UNION {(IF v.e[i].v = EmptyObj THEN {<<v.e[i].k>>} ELSE {})
                \cup {<<v.e[i].k>> \o c : c \in EmptyObjectChains(v.e[i].v)}
                : i \in 1..Len(v.e)}

RECURSIVE EmptyFolderAt(_, _)
\* In a tree of {type, children} nodes the chain of names leads, folder by
\* folder, to a folder without children.
EmptyFolderAt(t, chain) ==
    /\ Has(t.e, chain[1])
    /\ IsFolderNode(Get(t.e, chain[1]))
    /\ IF Len(chain) = 1 THEN ChildrenOf(Get(t.e, chain[1])) = EmptyObj
       ELSE EmptyFolderAt(ChildrenOf(Get(t.e, chain[1])), Tail(chain))

RECURSIVE EmptyFolderInList(_, _)
\* The same in a list of {name, type, children} nodes, the names sanitized.
EmptyFolderInList(level, chain) ==
    LET at == FindNode(level, sanitizeFilename(chain[1]))
    IN  /\ at # 0
        /\ level[at].type = "folder"
        /\ IF Len(chain) = 1 THEN level[at].children = <<>>
           ELSE EmptyFolderInList(level[at].children, Tail(chain))

RECURSIVE NoFileHasChildren(_)
\* No file node of a tree of {type, children} nodes has children.
NoFileHasChildren(t) ==
    \A i \in 1..Len(t.e) :
        IF IsFileNode(t.e[i].v) THEN ~Has(t.e[i].v.e, ChildrenKey)
        ELSE NoFileHasChildren(ChildrenOf(t.e[i].v))

RECURSIVE NoFileHasChildrenInList(_)
\* The same in a list of {name, type, children} nodes.
NoFileHasChildrenInList(level) ==
    \A i \in 1..Len(level) :
        IF level[i].type = "file" THEN level[i].children = <<>>
        ELSE NoFileHasChildrenInList(level[i].children)

\* App's structure has an empty folder for every {} and no file with children.
AppEmptyObjectIsEmptyFolder ==
    (op = "parseJsonToFileStructure" /\ fileStructure.ok) =>
        /\ \A chain \in EmptyObjectChains(data) :
               EmptyFolderAt(fileStructure.v, chain)
        /\ data = EmptyObj => fileStructure.v = EmptyObj
        /\ NoFileHasChildren(fileStructure.v)

\* So has FileConverter's tree.
ConverterEmptyObjectIsEmptyFolder ==
    (op = "buildFileTree" /\ preview.ok) =>
        /\ \A chain \in EmptyObjectChains(data) :
               EmptyFolderAt(preview.v, chain)
        /\ data = EmptyObj => preview.v = EmptyObj
        /\ NoFileHasChildren(preview.v)

\* So has the hierarchy made from createFileTree's paths.
HierarchyEmptyObjectIsEmptyFolder ==
    (op = "createHierarchicalTree" /\ hierarchy.ok) =>
        /\ \A chain \in EmptyObjectChains(data) :
               EmptyFolderInList(hierarchy.v, chain)
        /\ data = EmptyObj => hierarchy.v = <<>>
        /\ NoFileHasChildrenInList(hierarchy.v)

\* C21: in the tree each builder makes, a value {} reached through the keys
\* of objects is a directory without children (the root {} is the empty
\* tree), and no file node has children.
C21_EmptyObjectIsEmptyDirectory ==
    /\ AppEmptyObjectIsEmptyFolder
    /\ ConverterEmptyObjectIsEmptyFolder
    /\ HierarchyEmptyObjectIsEmptyFolder

----------------------------------------------------------------------------
(* C22 *)

\* The paths of the entries of a flattened tree that have the type, in order.
FlatPathsOfType(list, type) ==
    LET chosen == SelectSeq(list, LAMBDA entry : Get(entry.e, TypeKey) = type)
    IN  [i \in 1..Len(chosen) |-> Get(chosen[i].e, PathKey).s]

\* C22: on every tree the queries agree: the paths of the file entries of
\* flattenTree, in order, are getFilePaths; the paths of its directory
\* entries, in order, are getDirectoryPaths; countTreeFiles is the number of
\* file paths, countTreeDirectories the number of directory paths, and
\* flattenTree has getTreeStats().totalNodes entries.
C22_TreeQueriesAgree ==
    op = "treeQueries" =>
        /\ FlatPathsOfType(flat, FileType) = filePaths
        /\ FlatPathsOfType(flat, DirectoryType) = directoryPaths
        /\ countTreeFiles(tree) = Len(filePaths)
        /\ countTreeDirectories(tree) = Len(directoryPaths)
        /\ Len(flat) = treeStats.totalNodes

\* The queries were applied to a tree with a file and with a directory in a
\* directory.
C22_Witness ==
    /\ op = "treeQueries"
    /\ Len(filePaths) >= 1
    /\ \E i \in 1..Len(directoryPaths) : HasSlash(directoryPaths[i])
    /\ Len(flat) = Len(filePaths) + Len(directoryPaths)

====
